---- MODULE Spec2Model ----
(***************************************************************************)
(* Model of server.js: the shared browser (getBrowser), the /download-pdf  *)
(* request handler with its two capture channels and its fallbacks, and    *)
(* the metadata / filename functions.                                      *)
(*                                                                         *)
(* Node runs one event loop: code between two awaits runs to completion.   *)
(* Every action below is one such run: it resumes a suspended await with   *)
(* one of the outcomes the awaited operation can have, and executes the    *)
(* synchronous code up to the next await.                                  *)
(***************************************************************************)
EXTENDS Integers, Sequences, FiniteSets, TLC

\* null where a string (a sequence of characters) is expected
NULL == <<"null">>
\* null where a Buffer (a sequence of bytes) is expected
NullBuf == <<-1>>
\* no response sent yet
NoResponse == [status |-> 0]
\* browserInstance = null (server.js:16); browser processes are numbered from 1
NoBrowser == 0

\* ------------------------------------------------------------------ bounds
\* browser processes that may be launched in one run
MaxLaunches == 3
\* getBrowser calls per caller
MaxCalls == 2

\* network exchanges (request/response pairs) the page produces in one request
MaxResponses == 1
\* iterations of the polling loop; stands for the 80 of server.js:604
MaxPoll == 2

\* concurrent callers of getBrowser (requests in flight)
Callers == {1, 2}
\* the request whose /download-pdf handler is modelled step by step
Main == 1

\* ------------------------------------------------------------------ buffers
\* A Buffer is a sequence of byte values.
\* '%PDF'
PdfMagic == <<37, 80, 68, 70>>
\* '<html' : a body that is no PDF
HtmlBody == <<60, 104, 116, 109, 108>>
\* '%PD' : a body shorter than the marker
ShortBody == <<37, 80, 68>>
\* a PDF body; the tag byte tells the bodies of different sources apart
PdfBody(tag) == PdfMagic \o <<tag>>

\* buffer.slice(0, 4) (server.js:403, 430, 534, 559, 671, 800, 864)
Header(buf) == SubSeq(buf, 1, IF Len(buf) < 4 THEN Len(buf) ELSE 4)
\* header === '%PDF'
IsPdf(buf) == Header(buf) = PdfMagic
\* `buffer && buffer.length > 0` (server.js:531, 606, 642, 670, 863)
NonEmpty(buf) == buf # NullBuf /\ Len(buf) > 0

VARIABLES
    \* ---- process-wide state (server.js:16)
    browserInstance,   \* NoBrowser or the id of the browser last assigned
    launched,          \* number of browser processes launched so far (ids 1..launched)
    connected,         \* ids of the browser processes that are alive (isConnected())
    \* ---- one getBrowser activation per caller
    gbpc,              \* position in getBrowser: idle, launch, retry, returned, threw
    gbBrowser,         \* the instance getBrowser returned to the caller
    gbCalls,           \* calls made by the caller so far
    gbFullFailed,      \* the full-flag launch of the current call failed
    gbRetries,         \* minimal-flag launches attempted in the current call
    \* ---- the /download-pdf handler of request Main (server.js:290-913)
    pc,                \* the await the handler is suspended at
    url,               \* req.query.url: NullBuf or the bytes of the string
    page,              \* the main page: none, open, closed
    closeCalls,        \* page.close() calls made on the main page
    closeFailed,       \* some page.close() on the main page rejected
    pdfBuffer,         \* server.js:326
    pdfCaptured,       \* server.js:327
    writes,            \* assignments made to pdfBuffer (counted up to WritesCap)
    cdpClient,         \* none, session (Network.enable failed), enabled
    cdpResponseMap,    \* request ids recorded by Network.responseReceived
    navResponse,       \* what page.goto returned: "none", "pdf", "other"
    navErrors,         \* which of page.goto and waitForNavigation rejected
    pollI,             \* loop counter i (server.js:604)
    currentUrl,        \* server.js:699, NullBuf until page.url() is read
    waits,             \* the waits of the passive phase that are over, by kind
    outBytes,          \* the buffer base64Pdf was computed from
    nameArg,           \* the buffer generatePdfFilename was called with
    origin,            \* which path produced outBytes
    filename,          \* result of generatePdfFilename
    newPage,           \* the secondary page of fallback 3: none, open, closed
    res,               \* the HTTP response sent, or NoResponse
    resCount,          \* number of responses sent
    yielded,           \* some read handed a '%PDF' buffer to the handler
    \* ---- network exchanges of the main page and their listeners
    nEx,               \* exchanges started so far
    exKind,            \* per exchange: "pdf" (content-type application/pdf),
                       \*   "ok" (status 200 or pdf-like URL), "skip"
    exBody,            \* per exchange: the response body
    hl,                \* per exchange: position of the page.on('response') handler
    ll,                \* per exchange: position of the CDP handlers
    llLog,             \* per exchange: how each Network.getResponseBody call of the
                       \*   loadingFinished handler ended, in order
    \* ---- one generatePdfFilename call looked at on its own
    mpc,               \* idle, call, parsing, settled, named
    pdfData,           \* the T values of the document's text runs
    parserEvent,       \* what ended the parse: none, dataReady, dataError, threw
    metadata,              \* what extractPdfMetadata settled with
    \* ---- two requests in flight at once, each with its own handler activation
    rq,                \* per request: the bindings of its activation
    pages,             \* the pages opened in the browser, in order
    listeners,         \* the listeners registered: on which page, by which request
    pending            \* listener invocations whose read has not settled yet

browserVars == <<browserInstance, launched, connected, gbpc, gbBrowser, gbCalls,
                 gbFullFailed, gbRetries>>

handlerVars == <<pc, url, page, closeCalls, closeFailed, pdfBuffer, pdfCaptured,
                 writes, cdpClient, cdpResponseMap, navResponse, navErrors, pollI, currentUrl, waits, outBytes, nameArg,
                 origin, filename, newPage, res, resCount, yielded>>

\* handlerVars without filename
handlerRest == <<pc, url, page, closeCalls, closeFailed, pdfBuffer, pdfCaptured,
                 writes, cdpClient, cdpResponseMap, navResponse, navErrors, pollI, currentUrl, waits, outBytes, nameArg,
                 origin, newPage, res, resCount, yielded>>

netVars == <<nEx, exKind, exBody, hl, ll, llLog>>

metaVars == <<mpc, pdfData, parserEvent, metadata>>

pairVars == <<rq, pages, listeners, pending>>

vars == <<browserVars, handlerVars, netVars, metaVars, pairVars>>

\* ------------------------------------------------------------- getBrowser

\* server.js:20 browserInstance && browserInstance.isConnected()
IsUsable(b) == b # NoBrowser /\ b \in connected

\* getBrowser() up to its first await (server.js:19-54): return the live
\* instance, or start puppeteer.launch(launchOptions).
GbEnter(r) ==
    /\ gbpc[r] = "idle"
    /\ gbFullFailed' = [gbFullFailed EXCEPT ![r] = FALSE]
    /\ gbRetries' = [gbRetries EXCEPT ![r] = 0]
    /\ IF IsUsable(browserInstance)
         THEN /\ gbpc' = [gbpc EXCEPT ![r] = "returned"]
              /\ gbBrowser' = [gbBrowser EXCEPT ![r] = browserInstance]
         ELSE /\ gbpc' = [gbpc EXCEPT ![r] = "launch"]
              /\ gbBrowser' = [gbBrowser EXCEPT ![r] = NoBrowser]
    /\ UNCHANGED <<browserInstance, launched, connected>>

\* whether a failed full launch is retried (server.js:60)
RetryGuard(inst) == inst = NoBrowser

\* puppeteer.launch(launchOptions) resolves (server.js:54-56)
GbLaunchOk(r) ==
    /\ gbpc[r] = "launch"
    /\ launched < MaxLaunches
    /\ launched' = launched + 1
    /\ connected' = connected \cup {launched + 1}
    /\ browserInstance' = launched + 1
    /\ gbBrowser' = [gbBrowser EXCEPT ![r] = launched + 1]
    /\ gbpc' = [gbpc EXCEPT ![r] = "returned"]
    /\ UNCHANGED <<gbFullFailed, gbRetries>>

\* puppeteer.launch(launchOptions) rejects (server.js:57-72): retry with the
\* minimal flags only if browserInstance is falsy, else rethrow.
GbLaunchFail(r) ==
    /\ gbpc[r] = "launch"
    /\ gbFullFailed' = [gbFullFailed EXCEPT ![r] = TRUE]
    /\ IF RetryGuard(browserInstance)
         THEN /\ gbpc' = [gbpc EXCEPT ![r] = "retry"]
              /\ gbRetries' = [gbRetries EXCEPT ![r] = @ + 1]
         ELSE /\ gbpc' = [gbpc EXCEPT ![r] = "threw"]
              /\ UNCHANGED gbRetries
    /\ UNCHANGED <<browserInstance, launched, connected, gbBrowser>>

\* the minimal-flag launch resolves (server.js:62-66)
GbRetryOk(r) ==
    /\ gbpc[r] = "retry"
    /\ launched < MaxLaunches
    /\ launched' = launched + 1
    /\ connected' = connected \cup {launched + 1}
    /\ browserInstance' = launched + 1
    /\ gbBrowser' = [gbBrowser EXCEPT ![r] = launched + 1]
    /\ gbpc' = [gbpc EXCEPT ![r] = "returned"]
    /\ UNCHANGED <<gbFullFailed, gbRetries>>

\* the minimal-flag launch rejects (server.js:67-69)
GbRetryFail(r) ==
    /\ gbpc[r] = "retry"
    /\ gbpc' = [gbpc EXCEPT ![r] = "threw"]
    /\ UNCHANGED <<browserInstance, launched, connected, gbBrowser, gbFullFailed,
                   gbRetries>>

\* a browser process dies or loses its connection (isConnected() turns false)
BrowserDisconnect ==
    /\ \E b \in connected : connected' = connected \ {b}
    /\ UNCHANGED <<browserInstance, launched, gbpc, gbBrowser, gbCalls,
                   gbFullFailed, gbRetries>>

InitBrowserVars ==
    /\ browserInstance = NoBrowser
    /\ launched = 0
    /\ connected = {}
    /\ gbpc = [r \in Callers |-> "idle"]
    /\ gbBrowser = [r \in Callers |-> NoBrowser]
    /\ gbCalls = [r \in Callers |-> 0]
    /\ gbFullFailed = [r \in Callers |-> FALSE]
    /\ gbRetries = [r \in Callers |-> 0]

Exchanges == 1..MaxResponses

\* no wait of the passive phase has been made
NoWaits == [poll |-> 0, idle |-> 0, settle |-> 0, final |-> 0]

InitHandler ==
    /\ pc = "start"
    /\ page = "none"
    /\ closeCalls = 0
    /\ closeFailed = FALSE
    /\ pdfBuffer = NullBuf
    /\ pdfCaptured = FALSE
    /\ writes = 0
    /\ cdpClient = "none"
    /\ cdpResponseMap = {}
    /\ navResponse = "none"
    /\ navErrors = {}
    /\ pollI = 0
    /\ currentUrl = NullBuf
    /\ waits = NoWaits
    /\ outBytes = NullBuf
    /\ nameArg = NullBuf
    /\ origin = "none"
    /\ filename = NULL
    /\ newPage = "none"
    /\ res = NoResponse
    /\ resCount = 0
    /\ yielded = FALSE
    /\ nEx = 0
    /\ exKind = [e \in Exchanges |-> "skip"]
    /\ exBody = [e \in Exchanges |-> <<>>]
    /\ hl = [e \in Exchanges |-> "none"]
    /\ ll = [e \in Exchanges |-> "none"]
    /\ llLog = [e \in Exchanges |-> <<>>]

\* the bindings a handler activation starts with (server.js:291, 326-329, 342)
NewActivation ==
    [pc |-> "idle", page |-> 0, pdfBuffer |-> NullBuf, pdfCaptured |-> FALSE,
     cdpResponseMap |-> {}, out |-> NullBuf, status |-> 0]

\* no request has started and the browser has no page
InitPair ==
    /\ rq = [r \in Callers |-> NewActivation]
    /\ pages = <<>>
    /\ listeners = {}
    /\ pending = {}

\* no generatePdfFilename call is looked at
InitMetaIdle ==
    /\ mpc = "idle"
    /\ pdfData = <<>>
    /\ parserEvent = "none"
    /\ metadata = [rejected |-> FALSE, rut |-> NULL, fechaEmision |-> NULL]

\* ---------------------------------------------- concurrent getBrowser calls
\* A /download-pdf request reaches `await getBrowser()` (server.js:317).
ReqGetBrowser(r) ==
    /\ gbCalls[r] < MaxCalls
    /\ gbCalls' = [gbCalls EXCEPT ![r] = @ + 1]
    /\ GbEnter(r)

\* The request that called getBrowser ends (server.js:897-912 on a throw, the
\* handler's response otherwise); its slot takes the next request.
ReqEnd(r) ==
    /\ gbpc[r] \in {"returned", "threw"}
    /\ gbpc' = [gbpc EXCEPT ![r] = "idle"]
    /\ gbBrowser' = [gbBrowser EXCEPT ![r] = NoBrowser]
    /\ UNCHANGED <<browserInstance, launched, connected, gbFullFailed, gbRetries>>

NextBrowser ==
    \/ \E r \in Callers : ReqGetBrowser(r) /\ UNCHANGED <<handlerVars, netVars, metaVars, pairVars>>
    \/ \E r \in Callers : GbLaunchOk(r) /\ UNCHANGED <<gbCalls, handlerVars, netVars, metaVars, pairVars>>
    \/ \E r \in Callers : GbLaunchFail(r) /\ UNCHANGED <<gbCalls, handlerVars, netVars, metaVars, pairVars>>
    \/ \E r \in Callers : GbRetryOk(r) /\ UNCHANGED <<gbCalls, handlerVars, netVars, metaVars, pairVars>>
    \/ \E r \in Callers : GbRetryFail(r) /\ UNCHANGED <<gbCalls, handlerVars, netVars, metaVars, pairVars>>
    \/ \E r \in Callers : ReqEnd(r) /\ UNCHANGED <<gbCalls, handlerVars, netVars, metaVars, pairVars>>
    \/ BrowserDisconnect /\ UNCHANGED <<handlerVars, netVars, metaVars, pairVars>>

\* no /download-pdf handler is stepped here: only its getBrowser calls
InitBrowser == InitBrowserVars /\ InitHandler /\ url = NullBuf /\ InitMetaIdle /\ InitPair

SpecBrowser == InitBrowser /\ [][NextBrowser]_vars

\* C7: at most one browser process is alive at any time, and two requests that
\* hold a live instance at the same time hold the same one.
C7_OneSharedBrowser ==
    /\ Cardinality(connected) <= 1
    /\ \A r1, r2 \in Callers :
         (gbpc[r1] = "returned" /\ gbpc[r2] = "returned"
            /\ gbBrowser[r1] \in connected /\ gbBrowser[r2] \in connected)
         => gbBrowser[r1] = gbBrowser[r2]

\* C8: a getBrowser call whose full-flag launch failed has attempted exactly
\* one minimal-flag launch by the time it returns or throws.
C8_RetryOnEveryFailure ==
    \A r \in Callers :
        (gbFullFailed[r] /\ gbpc[r] \in {"returned", "threw"}) => gbRetries[r] = 1

\* ------------------------------------------------------------- filenames
\* A string is a sequence of one-character strings.
Upper == <<"A","B","C","D","E","F","G","H","I","J","K","L","M","N","O","P","Q","R","S","T","U","V","W","X","Y","Z">>
Lower == <<"a","b","c","d","e","f","g","h","i","j","k","l","m","n","o","p","q","r","s","t","u","v","w","x","y","z">>
Digits == <<"0","1","2","3","4","5","6","7","8","9">>
Range(f) == {f[k] : k \in DOMAIN f}

\* the base64 alphabet of Buffer.prototype.toString('base64')
B64Chars == Upper \o Lower \o Digits \o <<"+", "/">>

\* buffer.toString('base64') (server.js:250, 284, 643, 673, 806, 866)
RECURSIVE Base64(_)
Base64(bs) ==
    IF Len(bs) = 0 THEN <<>>
    ELSE LET n  == IF Len(bs) >= 3 THEN 3 ELSE Len(bs)
             b1 == bs[1]
             b2 == IF n >= 2 THEN bs[2] ELSE 0
             b3 == IF n = 3 THEN bs[3] ELSE 0
             c1 == B64Chars[(b1 \div 4) + 1]
             c2 == B64Chars[((b1 % 4) * 16 + (b2 \div 16)) + 1]
             c3 == IF n >= 2 THEN B64Chars[((b2 % 16) * 4 + (b3 \div 64)) + 1] ELSE "="
             c4 == IF n = 3 THEN B64Chars[(b3 % 64) + 1] ELSE "="
         IN  <<c1, c2, c3, c4>> \o Base64(SubSeq(bs, n + 1, Len(bs)))

\* s.substring(0, n)
Substring0(s, n) == SubSeq(s, 1, IF Len(s) < n THEN Len(s) ELSE n)

\* [a-zA-Z0-9]
IsAlnum(c) == c \in Range(Upper) \cup Range(Lower) \cup Range(Digits)

\* s.replace(/[^a-zA-Z0-9]/g, '')
StripNonAlnum(s) == SelectSeq(s, IsAlnum)

\* the length the base64 text is cut to (server.js:250)
HashLen == 10

\* Buffer.from(url).toString('base64').substring(0, 10).replace(/[^a-zA-Z0-9]/g, '')
\* (server.js:250, 284)
UrlHash(u) == StripNonAlnum(Substring0(Base64(u), HashLen))

\* new Date().toISOString().replace(/[:.]/g, '-') (server.js:249, 283)
Timestamp(iso) == [k \in 1..Len(iso) |-> IF iso[k] \in {":", "."} THEN "-" ELSE iso[k]]

\* the generic form (server.js:258, 285)
GenericName(iso, u) == <<"p", "d", "f", "-">> \o Timestamp(iso) \o <<"-">> \o UrlHash(u)
                        \o <<".", "p", "d", "f">>

\* null and '' are falsy
Truthy(str) == str # NULL /\ str # <<>>
\* mutant: the RUT alone decides the form of the name
BothResolved_RutOnly(rut, fecha) == Truthy(rut)
\* `rut && fechaEmision` (server.js:253)
BothResolved(rut, fecha) == Truthy(rut) /\ Truthy(fecha)

\* generatePdfFilename (server.js:243-287). metadata is what extractPdfMetadata
\* settled with: [rejected |-> TRUE], or [rejected |-> FALSE, rut, fechaEmision].
GeneratePdfFilename(meta, iso, u) ==
    IF meta.rejected
      THEN GenericName(iso, u)
      ELSE IF BothResolved(meta.rut, meta.fechaEmision)
             THEN meta.rut \o <<"-">> \o meta.fechaEmision \o <<"-">> \o Timestamp(iso)
                    \o <<"-">> \o UrlHash(u) \o <<".", "p", "d", "f">>
             ELSE GenericName(iso, u)

\* an instant as new Date().toISOString() prints it
IsoNow == <<"2", "0", "2", "5", "-", "1", "2", "-", "1", "5", "T", "1", "0", ":", "3", "0", ":", "0", "0", ".", "1", "2", "3", "Z">>

\* ------------------------------------------------------ extractPdfMetadata

\* \s, \d, \w and the letter classes of the patterns below. The text runs drawn
\* here hold the space as their only white space.
IsSpace(c) == c = " "
NotSpace(c) == ~IsSpace(c)
IsDigit(c) == c \in Range(Digits)
IsWord(c) == IsAlnum(c) \/ c = "_"
InClass(c, cls) ==
    CASE cls = "upper" -> c \in Range(Upper)
      [] cls = "lower" -> c \in Range(Lower)
      [] cls = "digit" -> IsDigit(c)
      [] cls = "word" -> IsWord(c)
      [] cls = "space" -> IsSpace(c)
      [] cls = "ink" -> ~IsSpace(c)
      [] cls = "gap" -> IsSpace(c) \/ c \in {":", "|"}
      [] OTHER -> FALSE

\* one character of String.prototype.toLowerCase
LowerOf(c) ==
    IF c \in Range(Upper) THEN Lower[CHOOSE k \in 1..26 : Upper[k] = c]
    ELSE IF c = "Ñ" THEN "ñ"
    ELSE IF c = "Ó" THEN "ó"
    ELSE c
ToLowerCase(s) == [k \in 1..Len(s) |-> LowerOf(s[k])]

Min(S) == CHOOSE x \in S : \A y \in S : x <= y
Max(S) == CHOOSE x \in S : \A y \in S : x >= y

\* s[i], or '' beyond the ends
CharAt(s, i) == IF i >= 1 /\ i <= Len(s) THEN s[i] ELSE ""

\* the literal p, compared without case (the /i flag), stands at s[i..]
LitAt(s, i, p) ==
    /\ i >= 1
    /\ i + Len(p) - 1 <= Len(s)
    /\ \A k \in 1..Len(p) : LowerOf(s[i + k - 1]) = LowerOf(p[k])

\* the percent escapes decodeURIComponent meets in the runs drawn here; any
\* other '%' in them is not followed by two hex digits and raises URIError
Escapes ==
    { [enc |-> <<"%", "2", "0">>, ch |-> " "],
      [enc |-> <<"%", "3", "A">>, ch |-> ":"],
      [enc |-> <<"%", "7", "C">>, ch |-> "|"],
      [enc |-> <<"%", "C", "3", "%", "B", "1">>, ch |-> "ñ"],
      [enc |-> <<"%", "C", "3", "%", "B", "3">>, ch |-> "ó"] }

EscapeAt(s, i) ==
    {e \in Escapes : i + Len(e.enc) - 1 <= Len(s) /\ SubSeq(s, i, i + Len(e.enc) - 1) = e.enc}

\* the first '%' at or after i, or Len(s) + 1
NextPercent(s, i) == Min({j \in i..Len(s) : s[j] = "%"} \cup {Len(s) + 1})

\* decodeURIComponent(run.T) throws (server.js:124)
RECURSIVE Malformed(_, _)
Malformed(s, i) ==
    LET j == NextPercent(s, i)
    IN  IF j > Len(s) THEN FALSE
        ELSE IF EscapeAt(s, j) = {} THEN TRUE
        ELSE Malformed(s, j + Len((CHOOSE e \in EscapeAt(s, j) : TRUE).enc))

\* decodeURIComponent(run.T) (server.js:124): what stands between two
\* escapes is taken as it is
RECURSIVE DecodeURIComponent(_, _)
DecodeURIComponent(s, i) ==
    LET j == NextPercent(s, i)
    IN  IF i > Len(s) THEN <<>>
        ELSE IF j > i THEN SubSeq(s, i, j - 1) \o DecodeURIComponent(s, j)
        ELSE IF EscapeAt(s, i) = {} THEN <<s[i]>> \o DecodeURIComponent(s, i + 1)
        ELSE LET e == CHOOSE x \in EscapeAt(s, i) : TRUE
             IN  <<e.ch>> \o DecodeURIComponent(s, i + Len(e.enc))

\* server.js:115-131: the runs of all pages in document order, each followed
\* by a space; a run with an empty T is skipped. data is the sequence of the
\* T values of pdfData.Pages[].Texts[].R[].
RECURSIVE RawText(_)
RawText(data) ==
    IF data = <<>> THEN <<>>
    ELSE IF Head(data) = <<>> THEN RawText(Tail(data))
    ELSE DecodeURIComponent(Head(data), 1) \o <<" ">> \o RawText(Tail(data))

\* a run whose decoding throws inside the dataReady handler
DecodeThrows(data) == \E k \in 1..Len(data) : Malformed(data[k], 1)

\* rawText.replace(/\s+/g, '') (server.js:136)
TextNoSpaces(rawText) == SelectSeq(rawText, NotSpace)

\* the first position from i on whose character is not of the class: the end
\* of the run of spaces / digits / word characters that starts at i
RECURSIVE RunEnd(_, _, _)
RunEnd(s, i, cls) == IF i <= Len(s) /\ InClass(s[i], cls) THEN RunEnd(s, i + 1, cls) ELSE i
SpacesEnd(s, i) == RunEnd(s, i, "space")
DigitsEnd(s, i) == RunEnd(s, i, "digit")
WordEnd(s, i) == RunEnd(s, i, "word")
\* the first space from i on, or Len(s) + 1
NextSpace(s, i) == RunEnd(s, i, "ink")

\* s.replace(/\s+/g, ' ') (server.js:139, 144)
RECURSIVE CollapseSpaces(_, _)
CollapseSpaces(s, i) ==
    IF i > Len(s) THEN <<>>
    ELSE IF IsSpace(s[i]) THEN <<" ">> \o CollapseSpaces(s, SpacesEnd(s, i))
    ELSE SubSeq(s, i, NextSpace(s, i) - 1) \o CollapseSpaces(s, NextSpace(s, i))

\* where the scan for a match that begins with one character and a space
\* goes on after no match began at i: at the next character that stands
\* before a space; what lies before it is copied as it is
ScanOn(s, i) ==
    LET n == NextSpace(s, i + 1)
    IN  IF n - 1 > i THEN n - 1 ELSE i + 1

\* s.replace(/([A-Z])\s+([A-Z])/g, '$1$2') and its digit and lower-case
\* likes (server.js:140, 142, 143): matches are taken left to right and do
\* not overlap
RECURSIVE JoinAcrossSpaces(_, _, _)
JoinAcrossSpaces(s, i, cls) ==
    IF i > Len(s) THEN <<>>
    ELSE LET e == SpacesEnd(s, i + 1)
         IN  IF InClass(s[i], cls) /\ e > i + 1 /\ InClass(CharAt(s, e), cls)
               THEN <<s[i], s[e]>> \o JoinAcrossSpaces(s, e + 1, cls)
               ELSE SubSeq(s, i, ScanOn(s, i) - 1) \o JoinAcrossSpaces(s, ScanOn(s, i), cls)

\* s.replace(/(\d)\s+([\.-])\s*(\d)/g, '$1$2$3') (server.js:141)
RECURSIVE JoinDigitPunct(_, _)
JoinDigitPunct(s, i) ==
    IF i > Len(s) THEN <<>>
    ELSE LET e == SpacesEnd(s, i + 1)
             f == SpacesEnd(s, e + 1)
         IN  IF /\ IsDigit(s[i]) /\ e > i + 1 /\ CharAt(s, e) \in {".", "-"}
                /\ IsDigit(CharAt(s, f))
               THEN <<s[i], s[e], s[f]>> \o JoinDigitPunct(s, f + 1)
               ELSE SubSeq(s, i, ScanOn(s, i) - 1) \o JoinDigitPunct(s, ScanOn(s, i))

\* s.trim()
Trim(s) ==
    LET ink == {j \in 1..Len(s) : ~IsSpace(s[j])}
    IN  IF ink = {} THEN <<>> ELSE SubSeq(s, Min(ink), Max(ink))

\* `next`, once s has been worked out
Then(s, next) == IF Len(s) >= 0 THEN next ELSE <<>>

\* the text with normalised spacing (server.js:138-145), one replace after the
\* other: each result is complete before the next replace reads it
NormalizedText(rawText) ==
    LET s1 == CollapseSpaces(rawText, 1)
        s2 == JoinAcrossSpaces(s1, 1, "upper")
        s3 == JoinDigitPunct(s2, 1)
        s4 == JoinAcrossSpaces(s3, 1, "digit")
        s5 == JoinAcrossSpaces(s4, 1, "lower")
        s6 == CollapseSpaces(s5, 1)
    IN  Then(rawText, Then(s1, Then(s2, Then(s3, Then(s4, Then(s5, Then(s6, Trim(s6))))))))

\* /RUT[|:]?(\d+\.\d+\.\d+-\d)/i tried at position i (server.js:156, 163):
\* whether it matches there, and group 1
RutAt(t, i) ==
    LET a  == i + 3
        b  == IF CharAt(t, a) \in {"|", ":"} THEN a + 1 ELSE a
        d1 == DigitsEnd(t, b)
        d2 == DigitsEnd(t, d1 + 1)
        d3 == DigitsEnd(t, d2 + 1)
        ok == /\ LitAt(t, i, <<"R", "U", "T">>)
              /\ d1 > b /\ CharAt(t, d1) = "."
              /\ d2 > d1 + 1 /\ CharAt(t, d2) = "."
              /\ d3 > d2 + 1 /\ CharAt(t, d3) = "-"
              /\ IsDigit(CharAt(t, d3 + 1))
    IN  [ok |-> ok, index |-> i, g1 |-> IF ok THEN SubSeq(t, b, d3 + 1) ELSE <<>>]

\* the positions at which the pattern matches; two matches never overlap,
\* since group 1 holds no letter
RutStarts(t) == {i \in 1..Len(t) : RutAt(t, i).ok}

\* [...t.matchAll(/RUT[|:]?(\d+\.\d+\.\d+-\d)/gi)] (server.js:163), in order
RECURSIVE MatchesFrom(_, _)
MatchesFrom(t, i) ==
    IF {j \in RutStarts(t) : j >= i} = {} THEN <<>>
    ELSE LET j == Min({k \in RutStarts(t) : k >= i})
         IN  <<RutAt(t, j)>> \o MatchesFrom(t, j + 1)
AllRutMatches(t) == MatchesFrom(t, 1)

\* t.indexOf(p), counted from 1; 0 when p does not occur
IndexOf(t, p) ==
    LET at == {i \in 1..(Len(t) - Len(p) + 1) : SubSeq(t, i, i + Len(p) - 1) = p}
    IN  IF at = {} THEN 0 ELSE Min(at)

\* g.replace(/\./g, '').replace(/-/g, '') (server.js:159, 189)
NotDotOrDash(c) == c # "." /\ c # "-"
NotDot(c) == c # "."
\* mutant: only the dots are removed
StripRut_DotsOnly(g) == SelectSeq(g, NotDot)
StripRut(g) == SelectSeq(g, NotDotOrDash)

\* server.js:152-193: the RUT, or null
ExtractRut(t) ==
    LET starts == RutStarts(t)
    IN  IF starts # {}
          \* server.js:157-160: String.prototype.match without /g, the first match
          THEN StripRut(RutAt(t, Min(starts)).g1)
          \* server.js:161-193: the same pattern once more, with /g
          ELSE LET all == AllRutMatches(t)
                   senoresIndex == IndexOf(ToLowerCase(t), <<"s", "e", "ñ", "o", "r">>)
                   after == {k \in 1..Len(all) :
                               senoresIndex > 0 /\ all[k].index > senoresIndex}
                   selectedRut ==
                       IF after # {} THEN all[Min(after)].g1
                       ELSE IF Len(all) > 1 THEN all[Len(all)].g1
                       ELSE all[1].g1
               IN  IF Len(all) > 0 THEN StripRut(selectedRut) ELSE NULL

NoDate == [ok |-> FALSE, day |-> <<>>, month |-> <<>>, year |-> <<>>]

\* the end of the run matched by [:\s|]* from position i (server.js:198)
LabelGapEnd(s, i) == RunEnd(s, i, "gap")

\* /FechaEmisi[óo]n[:\s|]*(\d{1,2})\s+de\s+(\w+)\s+de\s+(\d{4})/i tried at
\* position i of the normalised text (server.js:198)
SpacedDateAt(s, i) ==
    LET p  == LabelGapEnd(s, i + 12)
        d  == DigitsEnd(s, p)
        a  == SpacesEnd(s, d)
        b  == SpacesEnd(s, a + 2)
        w  == WordEnd(s, b)
        c  == SpacesEnd(s, w)
        y  == SpacesEnd(s, c + 2)
        ok == /\ LitAt(s, i, <<"F", "e", "c", "h", "a", "E", "m", "i", "s", "i">>)
              /\ LowerOf(CharAt(s, i + 10)) \in {"ó", "o"}
              /\ LitAt(s, i + 11, <<"n">>)
              /\ d - p \in {1, 2}
              /\ a > d /\ LitAt(s, a, <<"d", "e">>)
              /\ b > a + 2 /\ w > b
              /\ c > w /\ LitAt(s, c, <<"d", "e">>)
              /\ y > c + 2 /\ DigitsEnd(s, y) >= y + 4
    IN  IF ok THEN [ok |-> TRUE, day |-> SubSeq(s, p, d - 1), month |-> SubSeq(s, b, w - 1),
                    year |-> SubSeq(s, y, y + 3)]
        ELSE NoDate

\* text.match(...) (server.js:198): the leftmost match
SpacedDate(s) ==
    LET at == {i \in 1..Len(s) : SpacedDateAt(s, i).ok}
    IN  IF at = {} THEN NoDate ELSE SpacedDateAt(s, Min(at))

\* de(\w+)de(\d{4}) tried at q: the ends the greedy \w+ may take
WordEnds(t, q) ==
    {e \in (q + 3)..WordEnd(t, q + 2) :
        LitAt(t, e, <<"d", "e">>) /\ DigitsEnd(t, e + 2) >= e + 6}

\* (\d{1,2})de(\w+)de(\d{4}) tried at p: two digits are tried before one, and
\* the longest \w+ first
DenseDateAt(t, p) ==
    LET two == /\ IsDigit(CharAt(t, p)) /\ IsDigit(CharAt(t, p + 1))
               /\ LitAt(t, p + 2, <<"d", "e">>) /\ WordEnds(t, p + 2) # {}
        one == /\ IsDigit(CharAt(t, p))
               /\ LitAt(t, p + 1, <<"d", "e">>) /\ WordEnds(t, p + 1) # {}
        q   == IF two THEN p + 2 ELSE p + 1
        e   == Max(WordEnds(t, q))
    IN  IF two \/ one
          THEN [ok |-> TRUE, day |-> SubSeq(t, p, q - 1), month |-> SubSeq(t, q + 2, e - 1),
                year |-> SubSeq(t, e + 2, e + 5)]
          ELSE NoDate

\* textNoSpaces.match(/Fecha.*?(\d{1,2})de(\w+)de(\d{4})/i) (server.js:202):
\* the leftmost 'Fecha' after which a date stands, and the nearest such date
DenseDate(t) ==
    LET dates  == {p \in 1..Len(t) : DenseDateAt(t, p).ok}
        labels == {i \in 1..Len(t) :
                     LitAt(t, i, <<"F", "e", "c", "h", "a">>) /\ \E p \in dates : p >= i + 5}
    IN  IF labels = {} THEN NoDate
        ELSE DenseDateAt(t, Min({p \in dates : p >= Min(labels) + 5}))

\* server.js:214-218
MonthNames ==
    << <<"e","n","e","r","o">>, <<"f","e","b","r","e","r","o">>, <<"m","a","r","z","o">>,
       <<"a","b","r","i","l">>, <<"m","a","y","o">>, <<"j","u","n","i","o">>,
       <<"j","u","l","i","o">>, <<"a","g","o","s","t","o">>,
       <<"s","e","p","t","i","e","m","b","r","e">>, <<"o","c","t","u","b","r","e">>,
       <<"n","o","v","i","e","m","b","r","e">>, <<"d","i","c","i","e","m","b","r","e">> >>

\* two decimal digits
TwoDigits(n) == <<Digits[(n \div 10) + 1], Digits[(n % 10) + 1]>>

\* monthMap[monthName] || '01' (server.js:220)
MonthOf(monthName) ==
    LET at == {k \in 1..12 : MonthNames[k] = monthName}
    IN  IF at # {} THEN TwoDigits(CHOOSE k \in at : TRUE)
        \* a name every object inherits is found too, and its value is truthy
        ELSE IF monthName = <<"c","o","n","s","t","r","u","c","t","o","r">>
          THEN <<"f","u","n","c","t","i","o","n"," ","O","b","j","e","c","t","(",")"," ",
                 "{"," ","[","n","a","t","i","v","e"," ","c","o","d","e","]"," ","}">>
        ELSE IF monthName = <<"_","_","p","r","o","t","o","_","_">>
          THEN <<"[","o","b","j","e","c","t"," ","O","b","j","e","c","t","]">>
        ELSE <<"0", "1">>

\* mutant: the day is taken as it was matched
PadStart2_AsMatched(s) == s
\* day.padStart(2, '0') (server.js:207)
PadStart2(s) == IF Len(s) < 2 THEN <<"0">> \o s ELSE s

\* server.js:195-223: the issue date, or null
ExtractFecha(text, t) ==
    LET first == SpacedDate(text)
        dateMatch == IF first.ok THEN first ELSE DenseDate(t)
    IN  IF dateMatch.ok
          THEN dateMatch.year \o <<"-">>
                 \o MonthOf(TextNoSpaces(ToLowerCase(dateMatch.month)))
                 \o <<"-">> \o PadStart2(dateMatch.day)
          ELSE NULL

NoMetadata == [rejected |-> FALSE, rut |-> NULL, fechaEmision |-> NULL]

\* the pdfParser_dataReady handler (server.js:112-230)
ExtractPdfMetadata(data) ==
    IF DecodeThrows(data) THEN NoMetadata
    ELSE LET rawText == RawText(data)
             t == TextNoSpaces(rawText)
         IN  [rejected |-> FALSE, rut |-> ExtractRut(t),
              fechaEmision |-> ExtractFecha(NormalizedText(rawText), t)]

\* run.T values as pdf2json hands them over, URI-encoded
RunRutA == <<"R","U","T","%","3","A","1",".","2",".","3","-","4">>
RunRutB == <<"r","u","t","%","7","C","5",".","6",".","7","-","8">>
RunRutSpaced == <<"R","%","2","0","U","%","2","0","T","%","2","0","4",".","8","3","5",".","9","5","6","-","6">>
RunSenor == <<"S","e","%","C","3","%","B","1","o","r">>
RunFecha ==
    <<"F","e","c","h","a","%","2","0","1","5","%","2","0","d","e","%","2","0",
      "m","a","y","o","%","2","0","d","e","%","2","0","2","0","2","5">>
RunFechaLabel ==
    <<"F","e","c","h","a","E","m","i","s","i","%","C","3","%","B","3","n","%","3","A","7","%","2","0",
      "d","e","%","2","0","J","U","N","I","O","%","2","0","d","e","%","2","0","2","0","2","4">>
RunBad == <<"5","0","%">>
Runs == {RunRutA, RunRutB, RunRutSpaced, RunSenor, RunFecha, RunFechaLabel, RunBad, <<>>}

\* ------------------------------------------------- the /download-pdf handler

\* ':' and the ASCII letters a-z
IsLetter(b) == b >= 97 /\ b <= 122
\* `new URL(url)` accepts the string (server.js:305-312): an absolute URL
\* begins with a scheme, letters followed by ':'
IsValidUrl(u) ==
    /\ Len(u) >= 2
    /\ IsLetter(u[1])
    /\ \E k \in 2..Len(u) : u[k] = 58 /\ \A j \in 1..(k - 1) : IsLetter(u[j])

\* the awaits at which the handler has called page.close() on the main page
\* (server.js:649/679/812/871, 892, 901)
ClosePcs == {"closeOk", "closeFinal", "closeCatch"}

\* where the synchronous code goes next, and what it carries there
Flow(target, out, org) ==
    [pc |-> target, out |-> out, origin |-> org, currentUrl |-> currentUrl,
     nameArg |-> nameArg]

\* const base64Pdf = <base>.toString('base64');
\* const filename = await generatePdfFilename(<arg>, url)
\* (server.js:643-646, 673-676, 806-809, 866-867)
CallGenName(base, arg, org) == [Flow("genName", base, org) EXCEPT !.nameArg = arg]

\* suspend at the next await
Apply(f) ==
    /\ pc' = f.pc
    /\ outBytes' = f.out
    /\ origin' = f.origin
    /\ currentUrl' = f.currentUrl
    /\ nameArg' = f.nameArg
    /\ closeCalls' = IF f.pc \in ClosePcs THEN closeCalls + 1 ELSE closeCalls

\* mutant: the success response is sent without `return`, and the handler runs
\* on into the last resort
Respond_NoReturn(r) ==
    /\ res' = r
    /\ resCount' = resCount + 1
    /\ pc' = IF r.status = 200 THEN "closeCatch" ELSE "done"

\* res.json / res.status(..).json (server.js:297, 308, 652, 682, 815, 874, 908)
Respond(r) ==
    /\ res' = r
    /\ resCount' = resCount + 1
    /\ pc' = "done"

\* server.js:890-895: close the page, then throw 'No PDF found'
FlowExhausted == Flow("closeFinal", NullBuf, "none")

\* what page.url() can return (server.js:699): the string of the request, or
\* another one (here with '/' appended) after a redirect, a form submission
\* or the browser's rewriting of the address
PageUrls == {url, Append(url, 47)}

\* mutant: fallback 2 is tried whatever the page's URL is
FlowFallback2_Ungated(cap, cur) ==
    [(IF ~cap THEN Flow("fb2Form", NullBuf, "none") ELSE FlowExhausted)
        EXCEPT !.currentUrl = cur]

\* server.js:698-707: page.url() is read; fallback 2 runs only if it differs
\* from url and nothing is captured; otherwise the handler falls through to
\* the last resort.
FlowFallback2(cap, cur) ==
    [(IF cur # url /\ ~cap THEN Flow("fb2Form", NullBuf, "none") ELSE FlowExhausted)
        EXCEPT !.currentUrl = cur]

\* server.js:660-667: fallback 1 reads the navigation response if it claims PDF
FlowFallback1(cap, cur) ==
    IF navResponse = "pdf" /\ ~cap
      THEN Flow("fb1Buffer", NullBuf, "none")
      ELSE FlowFallback2(cap, cur)

\* server.js:641-646: a buffer stored by a listener is the result
FlowAfterPassive(cap, cur) ==
    IF NonEmpty(pdfBuffer)
      THEN CallGenName(pdfBuffer, pdfBuffer, "passive")
      ELSE FlowFallback1(cap, cur)

\* server.js:631-634: the final 2 s wait, only if still uncaptured
FlowFinalWait(cap, cur) ==
    IF ~cap THEN Flow("final2", NullBuf, "none") ELSE FlowAfterPassive(cap, cur)

\* server.js:613-619: the network-idle wait, only if still uncaptured
FlowAfterLoop(cap, cur) ==
    IF ~cap THEN Flow("idleWait", NullBuf, "none") ELSE FlowFinalWait(cap, cur)

\* `!url` (server.js:296): the parameter is absent or the empty string
UrlMissing(u) == u = NullBuf \/ u = <<>>

\* server.js:296-301: missing url
HRejectMissing ==
    /\ pc = "start"
    /\ UrlMissing(url)
    /\ Respond([status |-> 400, error |-> "Missing required parameter: url"])
    /\ UNCHANGED <<nameArg, currentUrl, navErrors, waits, pairVars, metaVars, browserVars, netVars, url, page, closeCalls, closeFailed, pdfBuffer,
                   pdfCaptured, writes, cdpClient, cdpResponseMap, navResponse, pollI,
                   outBytes, origin, filename, newPage, yielded>>

\* server.js:304-312: url does not parse
HRejectInvalid ==
    /\ pc = "start"
    /\ ~UrlMissing(url)
    /\ ~IsValidUrl(url)
    /\ Respond([status |-> 400, error |-> "Invalid URL format"])
    /\ UNCHANGED <<nameArg, currentUrl, navErrors, waits, pairVars, metaVars, browserVars, netVars, url, page, closeCalls, closeFailed, pdfBuffer,
                   pdfCaptured, writes, cdpClient, cdpResponseMap, navResponse, pollI,
                   outBytes, origin, filename, newPage, yielded>>

\* mutant: the browser is asked for before the URL is parsed
HCallGetBrowser_Unvalidated ==
    /\ pc = "start"
    /\ ~UrlMissing(url)
    /\ GbEnter(Main)
    /\ pc' = "getBrowser"
    /\ UNCHANGED <<nameArg, currentUrl, navErrors, waits, pairVars, metaVars, gbCalls, netVars, url, page, closeCalls, closeFailed, pdfBuffer,
                   pdfCaptured, writes, cdpClient, cdpResponseMap, navResponse, pollI,
                   outBytes, origin, filename, newPage, res, resCount, yielded>>

\* server.js:317: await getBrowser()
HCallGetBrowser ==
    /\ pc = "start"
    /\ ~UrlMissing(url)
    /\ IsValidUrl(url)
    /\ GbEnter(Main)
    /\ pc' = "getBrowser"
    /\ UNCHANGED <<nameArg, currentUrl, navErrors, waits, pairVars, metaVars, gbCalls, netVars, url, page, closeCalls, closeFailed, pdfBuffer,
                   pdfCaptured, writes, cdpClient, cdpResponseMap, navResponse, pollI,
                   outBytes, origin, filename, newPage, res, resCount, yielded>>

\* server.js:897-912: the catch block when no page was opened
RespondError(msg) ==
    Respond([status |-> 500, error |-> "Failed to download PDF", message |-> msg])

\* getBrowser returned: server.js:320 await browser.newPage()
HGotBrowser ==
    /\ pc = "getBrowser"
    /\ gbpc[Main] = "returned"
    /\ pc' = "newPage"
    /\ UNCHANGED <<nameArg, currentUrl, navErrors, waits, pairVars, metaVars, browserVars, netVars, url, page, closeCalls, closeFailed, pdfBuffer,
                   pdfCaptured, writes, cdpClient, cdpResponseMap, navResponse, pollI,
                   outBytes, origin, filename, newPage, res, resCount, yielded>>

\* mutant: getBrowser is awaited outside the try block, its rejection ends the
\* handler and nothing is sent
HBrowserThrew_Unanswered ==
    /\ pc = "getBrowser"
    /\ gbpc[Main] = "threw"
    /\ pc' = "done"
    /\ UNCHANGED <<nameArg, currentUrl, navErrors, waits, pairVars, metaVars, browserVars, netVars, url, page, closeCalls, closeFailed, pdfBuffer,
                   pdfCaptured, writes, cdpClient, cdpResponseMap, navResponse, pollI,
                   outBytes, origin, filename, newPage, res, resCount, yielded>>

\* getBrowser threw: the catch block answers 500 (page is still null)
HBrowserThrew ==
    /\ pc = "getBrowser"
    /\ gbpc[Main] = "threw"
    /\ RespondError("Failed to launch browser")
    /\ UNCHANGED <<nameArg, currentUrl, navErrors, waits, pairVars, metaVars, browserVars, netVars, url, page, closeCalls, closeFailed, pdfBuffer,
                   pdfCaptured, writes, cdpClient, cdpResponseMap, navResponse, pollI,
                   outBytes, origin, filename, newPage, yielded>>

\* browser.newPage() resolves: server.js:320-333
HNewPageOk ==
    /\ pc = "newPage"
    /\ page' = "open"
    /\ pc' = "cdpSetup"
    /\ UNCHANGED <<nameArg, currentUrl, navErrors, waits, pairVars, metaVars, browserVars, netVars, url, closeCalls, closeFailed, pdfBuffer,
                   pdfCaptured, writes, cdpClient, cdpResponseMap, navResponse, pollI,
                   outBytes, origin, filename, newPage, res, resCount, yielded>>

\* browser.newPage() rejects: the catch block answers 500 (page is still null)
HNewPageFail ==
    /\ pc = "newPage"
    /\ RespondError("newPage failed")
    /\ UNCHANGED <<nameArg, currentUrl, navErrors, waits, pairVars, metaVars, browserVars, netVars, url, page, closeCalls, closeFailed, pdfBuffer,
                   pdfCaptured, writes, cdpClient, cdpResponseMap, navResponse, pollI,
                   outBytes, origin, filename, newPage, yielded>>

\* mutant: createCDPSession and Network.enable outside any try block, a
\* failure reaches the catch block of the handler
HCdpSetup_Uncaught ==
    /\ pc = "cdpSetup"
    /\ \E c \in {"none", "session", "enabled"} :
         /\ cdpClient' = c
         /\ Apply(Flow(IF c = "enabled" THEN "goto" ELSE "closeCatch", outBytes, origin))
    /\ UNCHANGED <<navErrors, waits, pairVars, metaVars, browserVars, netVars, url, page, closeFailed, pdfBuffer,
                   pdfCaptured, writes, cdpResponseMap, navResponse, pollI,
                   filename, newPage, res, resCount, yielded>>

\* server.js:331-338 createCDPSession and Network.enable, either may fail and
\* is caught; then the listeners are registered (344-572) and page.goto is
\* called (577)
HCdpSetup ==
    /\ pc = "cdpSetup"
    /\ \E c \in {"none", "session", "enabled"} : cdpClient' = c
    /\ pc' = "goto"
    /\ UNCHANGED <<nameArg, currentUrl, navErrors, waits, pairVars, metaVars, browserVars, netVars, url, page, closeCalls, closeFailed, pdfBuffer,
                   pdfCaptured, writes, cdpResponseMap, navResponse, pollI,
                   outBytes, origin, filename, newPage, res, resCount, yielded>>

\* what page.goto settles with (server.js:577-583): a response that claims
\* application/pdf or another one, null, or a rejection that .catch turns
\* into null
GotoResults ==
    {[response |-> r, rejected |-> FALSE] : r \in {"none", "pdf", "other"}}
      \cup {[response |-> "none", rejected |-> TRUE]}

\* mutant: page.goto without .catch, a rejection reaches the catch block
HGotoDone_Uncaught ==
    /\ pc = "goto"
    /\ \E r \in GotoResults :
         /\ navResponse' = r.response
         /\ navErrors' = IF r.rejected THEN navErrors \cup {"goto"} ELSE navErrors
         /\ Apply(Flow(IF r.rejected THEN "closeCatch" ELSE "waitNav", outBytes, origin))
    /\ UNCHANGED <<waits, pairVars, metaVars, browserVars, netVars, url, page, closeFailed, pdfBuffer,
                   pdfCaptured, writes, cdpClient, cdpResponseMap, pollI,
                   filename, newPage, res, resCount, yielded>>

\* server.js:577-592 page.goto resolves with a response or null, or rejects
\* (caught, null); then waitForNavigation is awaited
HGotoDone ==
    /\ pc = "goto"
    /\ \E r \in GotoResults :
         /\ navResponse' = r.response
         /\ navErrors' = IF r.rejected THEN navErrors \cup {"goto"} ELSE navErrors
    /\ pc' = "waitNav"
    /\ UNCHANGED <<nameArg, currentUrl, waits, pairVars, metaVars, browserVars, netVars, url, page, closeCalls, closeFailed, pdfBuffer,
                   pdfCaptured, writes, cdpClient, cdpResponseMap, pollI,
                   outBytes, origin, filename, newPage, res, resCount, yielded>>

\* mutant: the loop condition is `i < 80` alone
HWaitNavDone_NoFlagTest ==
    /\ pc = "waitNav"
    /\ \E timedOut \in BOOLEAN :
         navErrors' = IF timedOut THEN navErrors \cup {"waitNav"} ELSE navErrors
    /\ pollI' = 0
    /\ \E cur \in PageUrls :
         Apply(IF 0 < MaxPoll
                 THEN Flow("poll", NullBuf, "none")
                 ELSE FlowAfterLoop(pdfCaptured, cur))
    /\ UNCHANGED <<waits, pairVars, metaVars, browserVars, netVars, url, page, closeFailed, pdfBuffer,
                   pdfCaptured, writes, cdpClient, cdpResponseMap, navResponse,
                   filename, newPage, res, resCount, yielded>>

\* server.js:592-605 waitForNavigation resolves or times out (caught); the
\* polling loop starts
HWaitNavDone ==
    /\ pc = "waitNav"
    /\ \E timedOut \in BOOLEAN :
         navErrors' = IF timedOut THEN navErrors \cup {"waitNav"} ELSE navErrors
    /\ pollI' = 0
    /\ \E cur \in PageUrls :
         Apply(IF 0 < MaxPoll /\ ~pdfCaptured
                 THEN Flow("poll", NullBuf, "none")
                 ELSE FlowAfterLoop(pdfCaptured, cur))
    /\ UNCHANGED <<waits, pairVars, metaVars, browserVars, netVars, url, page, closeFailed, pdfBuffer,
                   pdfCaptured, writes, cdpClient, cdpResponseMap, navResponse,
                   filename, newPage, res, resCount, yielded>>

\* server.js:604-611 one delay(500) of the loop has elapsed
HPollTick ==
    /\ pc = "poll"
    /\ IF NonEmpty(pdfBuffer)
         THEN /\ pdfCaptured' = TRUE
              /\ pollI' = pollI
              /\ \E cur \in PageUrls : Apply(FlowAfterLoop(TRUE, cur))
         ELSE /\ pdfCaptured' = pdfCaptured
              /\ pollI' = pollI + 1
              /\ \E cur \in PageUrls :
                   Apply(IF pollI + 1 < MaxPoll /\ ~pdfCaptured
                           THEN Flow("poll", NullBuf, "none")
                           ELSE FlowAfterLoop(pdfCaptured, cur))
    /\ waits' = [waits EXCEPT !.poll = @ + 1]
    /\ UNCHANGED <<navErrors, pairVars, metaVars, browserVars, netVars, url, page, closeFailed, pdfBuffer,
                   writes, cdpClient, cdpResponseMap, navResponse,
                   filename, newPage, res, resCount, yielded>>

\* server.js:618 the network-idle wait is over (resolved, or rejected and
\* swallowed); delay(3000) follows
HIdleWaitDone ==
    /\ pc = "idleWait"
    /\ pc' = "settle3"
    /\ waits' = [waits EXCEPT !.idle = @ + 1]
    /\ UNCHANGED <<nameArg, currentUrl, navErrors, pairVars, metaVars, browserVars, netVars, url, page, closeCalls, closeFailed, pdfBuffer,
                   pdfCaptured, writes, cdpClient, cdpResponseMap, navResponse, pollI,
                   outBytes, origin, filename, newPage, res, resCount, yielded>>

\* server.js:619-634 delay(3000) is over: check once more
HSettleDone ==
    /\ pc = "settle3"
    /\ pdfCaptured' = (pdfCaptured \/ NonEmpty(pdfBuffer))
    /\ \E cur \in PageUrls : Apply(FlowFinalWait(pdfCaptured', cur))
    /\ waits' = [waits EXCEPT !.settle = @ + 1]
    /\ UNCHANGED <<navErrors, pairVars, metaVars, browserVars, netVars, url, page, closeFailed, pdfBuffer,
                   writes, cdpClient, cdpResponseMap, navResponse, pollI,
                   filename, newPage, res, resCount, yielded>>

\* server.js:634-642 delay(2000) is over: final check
HFinalWaitDone ==
    /\ pc = "final2"
    /\ pdfCaptured' = (pdfCaptured \/ NonEmpty(pdfBuffer))
    /\ \E cur \in PageUrls : Apply(FlowAfterPassive(pdfCaptured', cur))
    /\ waits' = [waits EXCEPT !.final = @ + 1]
    /\ UNCHANGED <<navErrors, pairVars, metaVars, browserVars, netVars, url, page, closeFailed, pdfBuffer,
                   writes, cdpClient, cdpResponseMap, navResponse, pollI,
                   filename, newPage, res, resCount, yielded>>

\* the validations that guard each place a buffer is accepted
\* server.js:531-535 (response handler)
AcceptHl(b) == NonEmpty(b) /\ IsPdf(b)
\* mutant: the loadingFinished handler stores any body of a PDF-typed response
AcceptLl_AnyBody(b) == NonEmpty(b)
\* server.js:398-406, 425-431 (loadingFinished handler and its retry): `if (body)`
AcceptLl(b) == NonEmpty(b) /\ IsPdf(b)
\* server.js:556-560 (fetch inside the response handler)
AcceptFetch(b) == NonEmpty(b) /\ IsPdf(b)
\* mutant: any non-empty body of a PDF-typed response is taken
AcceptFb1_AnyBody(b) == NonEmpty(b)
\* server.js:670-672 (fallback 1)
AcceptFb1(b) == NonEmpty(b) /\ IsPdf(b)
\* mutant: the content-type alone is enough
AcceptFb2_ContentTypeOnly(b, ctPdf) == NonEmpty(b) /\ (IsPdf(b) \/ ctPdf)
\* server.js:797-805 (fallback 2): header or content-type, then the header again
AcceptFb2(b, ctPdf) == NonEmpty(b) /\ (IsPdf(b) \/ ctPdf) /\ IsPdf(b)
\* server.js:863-865 (fallback 3)
AcceptFb3(b) == NonEmpty(b) /\ IsPdf(b)

\* a read handed bytes b to the handler
Saw(b) == yielded' = (yielded \/ (b # NullBuf /\ IsPdf(b)))

\* the documents the handler's PDFs hold: no text, a malformed escape, a RUT,
\* a date, a RUT and a date
MainDocs == {<<>>, <<RunBad>>, <<RunRutA>>, <<RunFecha>>, <<RunRutA, RunFecha>>}

\* how the parse can end when the handler awaits generatePdfFilename
\* (server.js:646, 676, 809, 867): a throw inside the promise executor, the
\* pdfParser_dataError event, or pdfParser_dataReady with the document's runs
MainOutcomes ==
    {[event |-> "threw", doc |-> <<>>], [event |-> "dataError", doc |-> <<>>]}
      \cup {[event |-> "dataReady", doc |-> d] : d \in MainDocs}

\* what extractPdfMetadata settles with (server.js:104-234)
SettledWith(event, doc) ==
    IF event = "threw" THEN [rejected |-> TRUE, rut |-> NULL, fechaEmision |-> NULL]
    ELSE IF event = "dataError" THEN NoMetadata
    ELSE ExtractPdfMetadata(doc)

\* mutant: fallback 1 accepts the buffer but does not return
HFb1BufferDone_NoReturn ==
    /\ pc = "fb1Buffer"
    /\ \E b \in {PdfBody(11), HtmlBody, ShortBody, <<>>, NullBuf}, cur \in PageUrls :
         /\ Saw(b)
         /\ Apply(FlowFallback2(pdfCaptured, cur))
    /\ UNCHANGED <<navErrors, waits, pairVars, metaVars, browserVars, netVars, url, page, closeFailed, pdfBuffer,
                   pdfCaptured, writes, cdpClient, cdpResponseMap, navResponse, pollI,
                   filename, newPage, res, resCount>>

\* response.buffer() of the navigation response settles (server.js:667-696)
HFb1BufferDone ==
    /\ pc = "fb1Buffer"
    /\ \E b \in {PdfBody(11), HtmlBody, ShortBody, <<>>, NullBuf}, cur \in PageUrls :
         /\ Saw(b)
         /\ Apply(IF AcceptFb1(b)
                    THEN CallGenName(b, b, "fb1")
                    ELSE FlowFallback2(pdfCaptured, cur))
    /\ UNCHANGED <<navErrors, waits, pairVars, metaVars, browserVars, netVars, url, page, closeFailed, pdfBuffer,
                   pdfCaptured, writes, cdpClient, cdpResponseMap, navResponse, pollI,
                   filename, newPage, res, resCount>>

\* page.evaluate(form extraction) settles (server.js:708-746, 828-834)
HFb2FormDone ==
    /\ pc = "fb2Form"
    /\ \E ok \in BOOLEAN :
         Apply(IF ok THEN Flow("fb2Fetch", NullBuf, "none")
                     ELSE Flow("fb3NewPage", NullBuf, "none"))
    /\ UNCHANGED <<navErrors, waits, pairVars, metaVars, browserVars, netVars, url, page, closeFailed, pdfBuffer,
                   pdfCaptured, writes, cdpClient, cdpResponseMap, navResponse, pollI,
                   filename, newPage, res, resCount, yielded>>

\* what the in-page fetch may settle with: the evaluation throws, the page
\* function returns null, or it returns {data, contentType}
Fb2Results ==
    {[kind |-> "throw", data |-> NullBuf, ctPdf |-> FALSE],
     [kind |-> "null", data |-> NullBuf, ctPdf |-> FALSE]}
    \cup {[kind |-> "data", data |-> d, ctPdf |-> c] :
            d \in {PdfBody(12), HtmlBody, <<>>}, c \in BOOLEAN}

\* page.evaluate(fetch) settles (server.js:746-834)
HFb2FetchDone ==
    /\ pc = "fb2Fetch"
    /\ \E r \in Fb2Results :
         /\ Saw(r.data)
         /\ Apply(IF r.kind = "throw" THEN Flow("fb3NewPage", NullBuf, "none")
                  ELSE IF r.kind = "data" /\ AcceptFb2(r.data, r.ctPdf)
                         THEN CallGenName(r.data, r.data, "fb2")
                         ELSE FlowExhausted)
    /\ UNCHANGED <<navErrors, waits, pairVars, metaVars, browserVars, netVars, url, page, closeFailed, pdfBuffer,
                   pdfCaptured, writes, cdpClient, cdpResponseMap, navResponse, pollI,
                   filename, newPage, res, resCount>>

\* browser.newPage() of fallback 3 settles (server.js:834-835, 884-892)
HFb3NewPageDone ==
    /\ pc = "fb3NewPage"
    /\ \E ok \in BOOLEAN :
         /\ newPage' = IF ok THEN "open" ELSE newPage
         /\ Apply(IF ok THEN Flow("fb3Goto", NullBuf, "none") ELSE FlowExhausted)
    /\ UNCHANGED <<navErrors, waits, pairVars, metaVars, browserVars, netVars, url, page, closeFailed, pdfBuffer,
                   pdfCaptured, writes, cdpClient, cdpResponseMap, navResponse, pollI,
                   filename, res, resCount, yielded>>

\* newPage.goto settles (server.js:835-844, 883-892): a response, null, or a throw
HFb3GotoDone ==
    /\ pc = "fb3Goto"
    /\ \E r \in {"response", "null", "throw"} :
         Apply(IF r = "response" THEN Flow("fb3Buffer", NullBuf, "none")
               ELSE IF r = "null" THEN Flow("fb3Close", NullBuf, "none")
               ELSE FlowExhausted)
    /\ UNCHANGED <<navErrors, waits, pairVars, metaVars, browserVars, netVars, url, page, closeFailed, pdfBuffer,
                   pdfCaptured, writes, cdpClient, cdpResponseMap, navResponse, pollI,
                   filename, newPage, res, resCount, yielded>>

\* directResponse.buffer(), or on its failure the CDP read, settles
\* (server.js:844-867, 883)
HFb3BufferDone ==
    /\ pc = "fb3Buffer"
    /\ \E b \in {PdfBody(13), HtmlBody, <<>>, NullBuf} :
         /\ Saw(b)
         /\ Apply(IF AcceptFb3(b) THEN CallGenName(b, b, "fb3")
                                  ELSE Flow("fb3Close", NullBuf, "none"))
    /\ UNCHANGED <<navErrors, waits, pairVars, metaVars, browserVars, netVars, url, page, closeFailed, pdfBuffer,
                   pdfCaptured, writes, cdpClient, cdpResponseMap, navResponse, pollI,
                   filename, newPage, res, resCount>>

\* newPage.close() on the failure path settles (server.js:883-892)
HFb3CloseDone ==
    /\ pc = "fb3Close"
    /\ \E ok \in BOOLEAN : newPage' = IF ok THEN "closed" ELSE newPage
    /\ Apply(FlowExhausted)
    /\ UNCHANGED <<navErrors, waits, pairVars, metaVars, browserVars, netVars, url, page, closeFailed, pdfBuffer,
                   pdfCaptured, writes, cdpClient, cdpResponseMap, navResponse, pollI,
                   filename, res, resCount, yielded>>

\* mutant: generatePdfFilename without its catch (server.js:280-286), a
\* rejection of extractPdfMetadata reaches the handler's catch block
HGenNameDone_Propagates ==
    /\ pc = "genName"
    /\ \E o \in MainOutcomes :
         /\ pdfData' = o.doc
         /\ parserEvent' = o.event
         /\ metadata' = SettledWith(o.event, o.doc)
         /\ filename' = IF o.event = "threw" THEN filename
                                             ELSE GeneratePdfFilename(metadata', IsoNow, url)
         /\ Apply(Flow(IF o.event = "threw" THEN "closeCatch"
                       ELSE IF origin = "fb3" THEN "fb3CloseOk" ELSE "closeOk",
                       outBytes, origin))
    /\ mpc' = "named"
    /\ UNCHANGED <<navErrors, waits, pairVars, browserVars, netVars, url, page, closeFailed, pdfBuffer,
                   pdfCaptured, writes, cdpClient, cdpResponseMap, navResponse, pollI,
                   newPage, res, resCount, yielded>>

\* mutant: generatePdfFilename reads the handler's pdfBuffer when the parse
\* begins after an await, not the buffer it was called with
HGenNameDone_ReadsShared ==
    /\ pc = "genName"
    /\ \E o \in MainOutcomes :
         /\ pdfData' = o.doc
         /\ parserEvent' = o.event
         /\ metadata' = SettledWith(o.event, o.doc)
         /\ filename' = GeneratePdfFilename(metadata', IsoNow, url)
    /\ mpc' = "named"
    /\ Apply([Flow(IF origin = "fb3" THEN "fb3CloseOk" ELSE "closeOk", outBytes, origin)
                EXCEPT !.nameArg = pdfBuffer])
    /\ UNCHANGED <<navErrors, waits, pairVars, browserVars, netVars, url, page, closeFailed, pdfBuffer,
                   pdfCaptured, writes, cdpClient, cdpResponseMap, navResponse, pollI,
                   newPage, res, resCount, yielded>>

\* generatePdfFilename settles (server.js:646-649, 676-679, 809-812, 867-869):
\* the parse of the buffer ended in one of its outcomes, extractPdfMetadata
\* settled, and the name was put together (server.js:243-287)
HGenNameDone ==
    /\ pc = "genName"
    /\ \E o \in MainOutcomes :
         /\ pdfData' = o.doc
         /\ parserEvent' = o.event
         /\ metadata' = SettledWith(o.event, o.doc)
         /\ filename' = GeneratePdfFilename(metadata', IsoNow, url)
    /\ mpc' = "named"
    /\ Apply(Flow(IF origin = "fb3" THEN "fb3CloseOk" ELSE "closeOk", outBytes, origin))
    /\ UNCHANGED <<navErrors, waits, pairVars, browserVars, netVars, url, page, closeFailed, pdfBuffer,
                   pdfCaptured, writes, cdpClient, cdpResponseMap, navResponse, pollI,
                   newPage, res, resCount, yielded>>

\* newPage.close() on the success path settles (server.js:869-872)
HFb3CloseOkDone ==
    /\ pc = "fb3CloseOk"
    /\ \E ok \in BOOLEAN : newPage' = IF ok THEN "closed" ELSE newPage
    /\ Apply(Flow("closeOk", outBytes, origin))
    /\ UNCHANGED <<navErrors, waits, pairVars, metaVars, browserVars, netVars, url, page, closeFailed, pdfBuffer,
                   pdfCaptured, writes, cdpClient, cdpResponseMap, navResponse, pollI,
                   filename, res, resCount, yielded>>

\* The page is gone or the response is sent: the listeners of the request can
\* store nothing any more (their reads fail with the page), and the model
\* stops following them.
ForgetNet ==
    /\ nEx' = 0
    /\ exKind' = [e \in Exchanges |-> "skip"]
    /\ exBody' = [e \in Exchanges |-> <<>>]
    /\ hl' = [e \in Exchanges |-> "none"]
    /\ ll' = [e \in Exchanges |-> "none"]
    /\ llLog' = [e \in Exchanges |-> <<>>]
    /\ cdpResponseMap' = {}

\* page.close() settles; a rejection is caught and logged
\* (server.js:649, 679, 812, 871, 892, 899-904)
PageCloseSettles(ok) ==
    /\ page' = IF ok THEN "closed" ELSE page
    /\ closeFailed' = (closeFailed \/ ~ok)

\* the body of a success response (server.js:652-657 and its three copies)
SuccessBody ==
    [status |-> 200, success |-> TRUE, pdf |-> Base64(outBytes),
     contentType |-> "application/pdf", filename |-> filename]

\* mutant: page.close() without .catch, a rejection reaches the catch block
HCloseOkDone_Uncaught ==
    /\ pc = "closeOk"
    /\ \E ok \in BOOLEAN :
         /\ PageCloseSettles(ok)
         /\ Respond(IF ok THEN SuccessBody
                          ELSE [status |-> 500, error |-> "Failed to download PDF",
                                message |-> "close failed"])
    /\ ForgetNet
    /\ UNCHANGED <<nameArg, currentUrl, navErrors, waits, pairVars, metaVars, browserVars, url, closeCalls, pdfBuffer,
                   pdfCaptured, writes, cdpClient, navResponse, pollI,
                   outBytes, origin, filename, newPage, yielded>>

\* page.close() on a success path settles: res.json(success)
HCloseOkDone ==
    /\ pc = "closeOk"
    /\ \E ok \in BOOLEAN : PageCloseSettles(ok)
    /\ Respond(SuccessBody)
    /\ ForgetNet
    /\ UNCHANGED <<nameArg, currentUrl, navErrors, waits, pairVars, metaVars, browserVars, url, closeCalls, pdfBuffer,
                   pdfCaptured, writes, cdpClient, navResponse, pollI,
                   outBytes, origin, filename, newPage, yielded>>

\* page.close() of the last resort settles (server.js:892-901): the error is
\* thrown and the catch block closes the page again
HCloseFinalDone ==
    /\ pc = "closeFinal"
    /\ \E ok \in BOOLEAN :
         /\ PageCloseSettles(ok)
         /\ IF ok THEN ForgetNet ELSE UNCHANGED <<netVars, cdpResponseMap>>
    /\ Apply(Flow("closeCatch", NullBuf, "none"))
    /\ UNCHANGED <<navErrors, waits, pairVars, metaVars, browserVars, url, pdfBuffer,
                   pdfCaptured, writes, cdpClient, navResponse, pollI,
                   filename, newPage, res, resCount, yielded>>

\* page.close() of the catch block settles (server.js:901-911): 500
HCloseCatchDone ==
    /\ pc = "closeCatch"
    /\ \E ok \in BOOLEAN : PageCloseSettles(ok)
    /\ RespondError("No PDF found")
    /\ ForgetNet
    /\ UNCHANGED <<nameArg, currentUrl, navErrors, waits, pairVars, metaVars, browserVars, url, closeCalls, pdfBuffer,
                   pdfCaptured, writes, cdpClient, navResponse, pollI,
                   outBytes, origin, filename, newPage, yielded>>

\* ------------------------------------------------- the capture listeners

\* the listeners are registered and the page can still produce network events
Listening ==
    /\ page = "open"
    /\ pc \notin {"start", "getBrowser", "newPage", "cdpSetup", "done"}

\* the handlers of an exchange run on while the request is in progress
Running == pc # "done"

\* what a response can be: content-type application/pdf ("pdf"), another
\* content-type with status 200 or a pdf-like URL ("ok"), neither ("skip")
ExKinds == {"pdf", "ok", "skip"}
ExBodies(e, k) == IF k = "skip" THEN {HtmlBody} ELSE {PdfBody(e), HtmlBody}

\* the first event of an exchange fixes what the response is
IsAttrs(e, k, b) ==
    IF e = nEx + 1
      THEN k \in ExKinds /\ b \in ExBodies(e, k)
      ELSE e <= nEx /\ k = exKind[e] /\ b = exBody[e]

\* Both handlers of exchange e have returned (or its CDP events never come):
\* nothing reads what the response was any more, and the model forgets it.
Over(h, l, e) == h[e] = "done" /\ (l[e] = "done" \/ cdpClient # "enabled")

\* the exchanges after a listener step that left hl' and ll' as given, with
\* exchange e known to be a response of kind k and body b
NetAfter(e, k, b) ==
    /\ nEx' = IF e = nEx + 1 THEN e ELSE nEx
    /\ exKind' = [x \in Exchanges |->
                    IF Over(hl', ll', x) THEN "skip" ELSE IF x = e THEN k ELSE exKind[x]]
    /\ exBody' = [x \in Exchanges |->
                    IF Over(hl', ll', x) THEN <<>> ELSE IF x = e THEN b ELSE exBody[x]]

\* the count of writes is kept up to "more than once"
WritesCap == 2

\* pdfBuffer = buffer; pdfCaptured = true (server.js:407-408, 432-433,
\* 536-537, 561-562)
Commit(b) ==
    /\ pdfBuffer' = b
    /\ pdfCaptured' = TRUE
    /\ writes' = IF writes < WritesCap THEN writes + 1 ELSE writes

\* a handler stores the buffer if its validation accepts it
StoreIf(accepted, b) ==
    IF accepted THEN Commit(b) ELSE UNCHANGED <<pdfBuffer, pdfCaptured, writes>>

\* page.on('response') up to response.buffer() (server.js:462-480)
EvResponse(e) ==
    /\ Listening
    /\ hl[e] = "none"
    /\ \E k \in ExKinds, b \in {PdfBody(e), HtmlBody} :
         /\ IsAttrs(e, k, b)
         /\ hl' = [hl EXCEPT ![e] = IF pdfCaptured THEN "done"
                                    ELSE IF k \in {"pdf", "ok"} THEN "buffer"
                                    ELSE "done"]
         /\ ll' = ll
         /\ NetAfter(e, k, b)
    /\ UNCHANGED <<nameArg, currentUrl, navErrors, waits, pairVars, llLog, metaVars, browserVars, handlerVars>>

\* What the reads of the response handler end with. Between its first await
\* and the place it stores the buffer the handler touches no shared variable,
\* so its chain of awaits is one step here:
\*   "buffer": response.buffer() resolves (server.js:480);
\*   "cdp":    it rejects, and with a PDF content-type createCDPSession and
\*             Network.getResponseBody give a body or null (no session, no
\*             request id, an empty body, a failed call) (server.js:480-529);
\*   "fetch":  the try block throws, and with a PDF content-type the URL is
\*             fetched from the page (server.js:544-568): a second request,
\*             whose body may be the same bytes or other ones.
Refetched(e) == PdfBody(20 + e)
HlReads(e) ==
    {[via |-> "buffer", data |-> d] : d \in {exBody[e], <<>>}}
    \cup {[via |-> "cdp", data |-> d] :
            d \in IF exKind[e] = "pdf" THEN {exBody[e], NullBuf} ELSE {NullBuf}}
    \cup {[via |-> "fetch", data |-> d] :
            d \in IF exKind[e] = "pdf" THEN {exBody[e], Refetched(e), <<>>, NullBuf}
                                       ELSE {NullBuf}}

\* the validation on the path the read took
AcceptRead(r) == IF r.via = "fetch" THEN AcceptFetch(r.data) ELSE AcceptHl(r.data)

\* the reads of the response handler settle (server.js:480-571)
HlSettle(e) ==
    /\ Running
    /\ hl[e] = "buffer"
    /\ \E r \in HlReads(e) :
         /\ Saw(r.data)
         /\ StoreIf(AcceptRead(r), r.data)
    /\ hl' = [hl EXCEPT ![e] = "done"]
    /\ ll' = ll
    /\ NetAfter(e, exKind[e], exBody[e])
    /\ UNCHANGED <<nameArg, currentUrl, navErrors, waits, pairVars, llLog, metaVars, browserVars, pc, url, page, closeCalls,
                   closeFailed, cdpClient, cdpResponseMap, navResponse, pollI, outBytes,
                   origin, filename, newPage, res, resCount>>

\* Network.responseReceived (server.js:345-369)
EvResponseReceived(e) ==
    /\ Listening
    /\ cdpClient = "enabled"
    /\ ll[e] = "none"
    /\ cdpResponseMap' = IF pdfCaptured THEN cdpResponseMap ELSE cdpResponseMap \cup {e}
    /\ ll' = [ll EXCEPT ![e] = "recv"]
    /\ hl' = hl
    /\ \E k \in ExKinds, b \in {PdfBody(e), HtmlBody} :
         IsAttrs(e, k, b) /\ NetAfter(e, k, b)
    /\ UNCHANGED <<nameArg, currentUrl, navErrors, waits, pairVars, llLog, metaVars, browserVars, pc, url, page, closeCalls, closeFailed, pdfBuffer,
                   pdfCaptured, writes, cdpClient, navResponse, pollI, outBytes,
                   origin, filename, newPage, res, resCount, yielded>>

\* Network.loadingFinished up to the first getResponseBody (server.js:373-394)
EvLoadingFinished(e) ==
    /\ Listening
    /\ ll[e] = "recv"
    /\ ll' = [ll EXCEPT ![e] =
                IF pdfCaptured \/ e \notin cdpResponseMap \/ exKind[e] # "pdf"
                  THEN "done" ELSE "body1"]
    /\ hl' = hl
    /\ NetAfter(e, exKind[e], exBody[e])
    /\ UNCHANGED <<nameArg, currentUrl, navErrors, waits, pairVars, llLog, metaVars, browserVars, handlerVars>>

\* delay(300) and the first Network.getResponseBody settle (server.js:392-420):
\* a body, an empty body, or an error that starts the retry
LlBodyDone(e) ==
    /\ Running
    /\ ll[e] = "body1"
    /\ \E r \in {"body", "empty", "error"} :
         LET b == IF r = "body" THEN exBody[e] ELSE <<>> IN
         /\ Saw(b)
         /\ StoreIf(r = "body" /\ AcceptLl(b), b)
         /\ ll' = [ll EXCEPT ![e] = IF r = "error" THEN "body2" ELSE "done"]
         /\ llLog' = [llLog EXCEPT ![e] = Append(@, r)]
    /\ hl' = hl
    /\ NetAfter(e, exKind[e], exBody[e])
    /\ UNCHANGED <<nameArg, currentUrl, navErrors, waits, pairVars, metaVars, browserVars, pc, url, page, closeCalls,
                   closeFailed, cdpClient, cdpResponseMap, navResponse, pollI, outBytes,
                   origin, filename, newPage, res, resCount>>

\* delay(1000) and the second Network.getResponseBody settle (server.js:420-439)
LlRetryDone(e) ==
    /\ Running
    /\ ll[e] = "body2"
    /\ \E r \in {"body", "empty", "error"} :
         LET b == IF r = "body" THEN exBody[e] ELSE <<>> IN
         /\ Saw(b)
         /\ StoreIf(r = "body" /\ AcceptLl(b), b)
         /\ llLog' = [llLog EXCEPT ![e] = Append(@, r)]
    /\ ll' = [ll EXCEPT ![e] = "done"]
    /\ hl' = hl
    /\ NetAfter(e, exKind[e], exBody[e])
    /\ UNCHANGED <<nameArg, currentUrl, navErrors, waits, pairVars, metaVars, browserVars, pc, url, page, closeCalls,
                   closeFailed, cdpClient, cdpResponseMap, navResponse, pollI, outBytes,
                   origin, filename, newPage, res, resCount>>

\* ------------------------------------------------------ one request, whole

\* the url parameter: missing, '', 'a' and ':a' (no URLs), 'a:?' (a URL)
UrlInputs == {NullBuf, <<>>, <<97>>, <<58, 97>>, <<97, 58, 63>>}

Init ==
    /\ InitBrowserVars
    /\ InitHandler
    /\ url \in UrlInputs
    /\ InitMetaIdle
    /\ InitPair

GetBrowserStep ==
    /\ pc = "getBrowser"
    /\ \/ GbLaunchOk(Main)
       \/ GbLaunchFail(Main)
       \/ GbRetryOk(Main)
       \/ GbRetryFail(Main)
    /\ UNCHANGED <<gbCalls, handlerVars, netVars, metaVars, pairVars>>

HandlerStep ==
    \/ HRejectMissing
    \/ HRejectInvalid
    \/ HCallGetBrowser
    \/ HGotBrowser
    \/ HBrowserThrew
    \/ HNewPageOk
    \/ HNewPageFail
    \/ HCdpSetup
    \/ HGotoDone
    \/ HWaitNavDone
    \/ HPollTick
    \/ HIdleWaitDone
    \/ HSettleDone
    \/ HFinalWaitDone
    \/ HFb1BufferDone
    \/ HFb2FormDone
    \/ HFb2FetchDone
    \/ HFb3NewPageDone
    \/ HFb3GotoDone
    \/ HFb3BufferDone
    \/ HFb3CloseDone
    \/ HGenNameDone
    \/ HFb3CloseOkDone
    \/ HCloseOkDone
    \/ HCloseFinalDone
    \/ HCloseCatchDone

ListenerStep ==
    \E e \in Exchanges :
        \/ EvResponse(e)
        \/ HlSettle(e)
        \/ EvResponseReceived(e)
        \/ EvLoadingFinished(e)
        \/ LlBodyDone(e)
        \/ LlRetryDone(e)

Next == GetBrowserStep \/ HandlerStep \/ ListenerStep

Spec == Init /\ [][Next]_vars

\* Every await of the handler settles: the timers fire, page.goto and
\* waitForNavigation carry timeouts (server.js:577-600, 618), puppeteer.launch
\* and the puppeteer calls resolve or reject, and the event loop runs each
\* continuation that is ready. The network owes the page no event.
Fairness == WF_vars(GetBrowserStep) /\ WF_vars(HandlerStep)

SpecLive == Init /\ [][Next]_vars /\ Fairness

\* ------------------------------------------------------------ properties

\* the first four bytes are '%PDF'
StartsWithMagic(b) ==
    Len(b) >= 4 /\ b[1] = 37 /\ b[2] = 80 /\ b[3] = 68 /\ b[4] = 70

\* the request ended with the 'No PDF found' failure
FailedNoPdf == res.status = 500 /\ res.message = "No PDF found"

\* C1: within one request pdfBuffer is written at most once, whatever the
\* interleaving of the response handler and the loadingFinished handler.
C1_AtMostOneCommit == writes <= 1

\* C2: a buffer is stored in pdfBuffer, chosen as the result, or returned in a
\* success response only if its first four bytes are '%PDF' (in base64 the
\* returned text then begins with JVBER).
C2_MagicGate ==
    /\ pdfBuffer # NullBuf => StartsWithMagic(pdfBuffer)
    /\ outBytes # NullBuf => StartsWithMagic(outBytes)
    /\ res.status = 200 =>
         /\ outBytes # NullBuf
         /\ Len(res.pdf) >= 5
         /\ SubSeq(res.pdf, 1, 5) = <<"J", "V", "B", "E", "R">>

\* a success answered from fallback 2, whose content-type test is the only one
\* that could let a non-PDF body through
C2_Witness == res.status = 200 /\ origin = "fb2"

\* C3: the handler takes the last resort (server.js:890-895: close the page,
\* throw 'No PDF found') only while pdfBuffer is still null: a buffer that a
\* listener stored while a fallback step was awaiting never leads to the failure.
C3_FailureOnlyIfNoBuffer ==
    [][(pc # "closeFinal" /\ pc' = "closeFinal") => pdfBuffer' = NullBuf]_vars

\* C4: every request is answered exactly once: no second response is ever
\* sent, the handler has finished exactly when one response has been sent, and
\* every request comes to that point.
C4_ExactlyOneResponse ==
    /\ [](/\ resCount <= 1
          /\ (pc = "done" <=> resCount = 1)
          /\ (resCount = 1 <=> res # NoResponse))
    /\ <>(pc = "done" /\ resCount = 1)

\* a request answered once, with the PDF fallback 3 fetched
C4_Witness == pc = "done" /\ res.status = 200 /\ origin = "fb3"

\* C5: when a response is sent by a request that opened its page,
\* page.close() has been called on it and the page is closed unless that
\* call itself failed; and a failed close does not change the outcome, which
\* is success exactly if a validated buffer was chosen.
C5_PageClosedBeforeResponse ==
    (resCount >= 1 /\ page # "none") =>
        /\ closeCalls >= 1
        /\ closeFailed \/ page = "closed"
        /\ outBytes # NullBuf => res.status = 200
        /\ outBytes = NullBuf => FailedNoPdf

\* a success sent although page.close() rejected
C5_Witness == pc = "done" /\ closeFailed /\ res.status = 200 /\ page = "open"

\* C6: a request that opened its page and to which no read, in either channel
\* or any fallback, ever handed a '%PDF' buffer ends with the 500
\* 'No PDF found', the page closed by then (unless close itself failed).
C6_NoPdfEndsIn500 ==
    (pc = "done" /\ page # "none" /\ ~yielded) =>
        /\ FailedNoPdf
        /\ closeCalls >= 1
        /\ closeFailed \/ page = "closed"

\* the failure after fallback 3 was tried, the page closed
C6_Witness ==
    pc = "done" /\ ~yielded /\ page = "closed" /\ newPage = "closed" /\ FailedNoPdf

\* ------------------------------------------------------------ the fallbacks

\* C17: whenever fallback 2 throws or completes without a '%PDF' buffer (the
\* in-page fetch returns null, or data that is empty or no PDF), the handler
\* goes on to open the secondary page: it leaves fallback 2 either with the
\* buffer it accepted or towards browser.newPage().
C17_Fallback3Trigger ==
    [][(pc \in {"fb2Form", "fb2Fetch"} /\ pc' \notin {"fb2Form", "fb2Fetch", "genName"})
         => pc' = "fb3NewPage"]_vars

\* C18: the handler comes to close the main page, which it does before every
\* response, with the secondary page still open only from newPage.close()
\* itself (a close that failed): a secondary page is never left behind
\* without a call to close it.
C18_SecondaryPageDisposed ==
    [][(newPage = "open" /\ pc \notin ClosePcs /\ pc' \in ClosePcs)
         => pc \in {"fb3Close", "fb3CloseOk"}]_vars

\* C19: the loadingFinished handler asks for the body at most twice, and a
\* second time exactly when the first call returned no body or failed.
C19_OneRetry ==
    \A e \in Exchanges :
        /\ Len(llLog[e]) <= 2
        /\ Len(llLog[e]) = 2 => llLog[e][1] # "body"
        /\ (ll[e] = "done" /\ Len(llLog[e]) >= 1 /\ llLog[e][1] # "body")
             => Len(llLog[e]) = 2

\* the steps of a request, in the order the handler takes them
PassivePcs == {"goto", "waitNav", "poll", "idleWait", "settle3", "final2"}
SuccessPcs == {"genName", "fb3CloseOk", "closeOk"}
Stage(p) ==
    CASE p \in {"start", "getBrowser", "newPage", "cdpSetup"} -> 0
      [] p \in PassivePcs -> 1
      [] p = "fb1Buffer" -> 2
      [] p \in {"fb2Form", "fb2Fetch"} -> 3
      [] p \in {"fb3NewPage", "fb3Goto", "fb3Buffer", "fb3Close"} -> 4
      [] p \in SuccessPcs \cup {"closeFinal", "closeCatch"} -> 5
      [] OTHER -> 6

\* the handler is in one of the fallback steps 1, 2, 3
InFallback(p) == Stage(p) \in {2, 3, 4}

\* C20: a fallback step starts only when the passive phase is over (after the
\* final wait) and left pdfBuffer empty; a buffer the passive phase stored is
\* the result; the steps are taken in the order direct-response read, form
\* resubmission, secondary navigation and never backwards; a '%PDF' buffer read
\* by a step is accepted at once, and from then on no fallback step runs and
\* the request ends in the success response.
C20_FallbackOrdering ==
    [][/\ Stage(pc') >= Stage(pc)
       /\ (Stage(pc) = 1 /\ InFallback(pc')) => (pc = "final2" /\ ~NonEmpty(pdfBuffer))
       /\ (Stage(pc) = 1 /\ Stage(pc') > 1 /\ NonEmpty(pdfBuffer))
            => (pc' = "genName" /\ outBytes' = pdfBuffer)
       /\ (InFallback(pc) /\ pc' # pc /\ ~yielded /\ yielded') => pc' = "genName"
       /\ (InFallback(pc) /\ pc' = "genName") => IsPdf(outBytes')
       /\ pc \in SuccessPcs => pc' \in SuccessPcs \cup {"done"}
       /\ (pc \in SuccessPcs /\ pc' = "done") => res'.status = 200]_vars

\* a success from fallback 2 after fallback 1 read a body that was no PDF
C20_Witness == pc = "done" /\ res.status = 200 /\ origin = "fb2" /\ navResponse = "pdf"

\* the timers of the passive phase, in milliseconds (server.js:605, 618, 619, 634)
PollDelayMs == 500
IdleTimeoutMs == 20000
SettleDelayMs == 3000
FinalDelayMs == 2000

\* the longest the waits made so far can have taken
WaitedMs ==
    waits.poll * PollDelayMs + waits.idle * IdleTimeoutMs
      + waits.settle * SettleDelayMs + waits.final * FinalDelayMs

\* the passive phase of a request that opened its page is behind it
PassiveOver == page # "none" /\ Stage(pc) > 1

\* the handler suspends at a wait of the passive phase
WaitBegins ==
    /\ <<pc, waits>>' # <<pc, waits>>
    /\ pc' \in {"poll", "idleWait", "final2"}

\* C21: after navigation the loop makes at most MaxPoll (in the code 80) waits
\* of 500 ms and none once pdfCaptured is set; if the loop ends uncaptured there
\* is exactly one network-idle wait (20 s at most) followed by one 3 s delay,
\* and then, only if still uncaptured, one 2 s delay; the waits add up to no
\* more than MaxPoll * 500 ms + 25 s (65 s for 80), and the phase ends.
C21_PassiveLadder ==
    /\ [](/\ waits.poll <= MaxPoll
          /\ waits.idle <= 1
          /\ waits.settle <= waits.idle
          /\ waits.final <= waits.settle
          /\ WaitedMs <= MaxPoll * PollDelayMs + IdleTimeoutMs + SettleDelayMs + FinalDelayMs
          /\ PassiveOver =>
                /\ waits.settle = waits.idle
                /\ waits.poll < MaxPoll => (pdfCaptured /\ waits.idle = 0)
                /\ waits.idle = 0 => pdfCaptured
                /\ waits.final = 0 => pdfCaptured)
    /\ [][/\ WaitBegins => ~pdfCaptured'
          /\ waits'.idle > waits.idle => pc' = "settle3"
          /\ (pc \in {"waitNav", "poll"} /\ pc' \notin {"waitNav", "poll"} /\ ~pdfCaptured')
               => pc' = "idleWait"]_vars
    /\ (pc \in PassivePcs ~> pc \notin PassivePcs)

\* the whole ladder was climbed: every wait made, nothing captured
C21_Witness ==
    /\ PassiveOver
    /\ waits = [poll |-> MaxPoll, idle |-> 1, settle |-> 1, final |-> 1]
    /\ ~pdfCaptured

\* a Network.getResponseBody call of the loadingFinished handler fails at this step
BodyReadFails ==
    \E e \in Exchanges :
        /\ Len(llLog'[e]) > Len(llLog[e])
        /\ llLog'[e][Len(llLog'[e])] = "error"

\* C22: a failure of an intermediate step is caught and the handler goes on:
\* after createCDPSession / Network.enable, failed or not, page.goto follows; a
\* failed body read of a listener leaves the handler where it is; a failed
\* page evaluation leads to the secondary page; a failed secondary page or
\* navigation leads to the last resort. Once the page is open a response is
\* sent only after a page.close() of a success path or of the catch block,
\* the catch block is entered only from the last resort, and a failure
\* response is the 'No PDF found' one.
C22_FailuresNeverAbort ==
    [][/\ (pc = "cdpSetup" /\ pc' # pc) => pc' = "goto"
       /\ BodyReadFails => (pc' = pc /\ res' = res /\ resCount' = resCount)
       /\ (pc = "fb2Form" /\ pc' # pc) => pc' \in {"fb2Fetch", "fb3NewPage"}
       /\ (pc = "fb2Fetch" /\ pc' # pc) => pc' \in {"genName", "fb3NewPage", "closeFinal"}
       /\ (pc = "fb3NewPage" /\ pc' # pc) => pc' \in {"fb3Goto", "closeFinal"}
       /\ (pc = "fb3Goto" /\ pc' # pc) => pc' \in {"fb3Buffer", "fb3Close", "closeFinal"}
       /\ (pc' = "closeFinal" /\ pc # pc') => Stage(pc) \in 1..4
       /\ (pc' = "closeCatch" /\ pc # pc') => pc = "closeFinal"
       /\ (page # "none" /\ resCount' # resCount) =>
             /\ pc \in {"closeOk", "closeCatch"}
             /\ res'.status = 500 =>
                   (pc = "closeCatch" /\ res'.message = "No PDF found")]_vars

\* a success from the secondary page although the CDP session could not be
\* created and the page evaluation of fallback 2 failed
C22_Witness ==
    /\ pc = "done"
    /\ res.status = 200
    /\ cdpClient = "none"
    /\ origin = "fb3"

\* C23: when page.goto rejects and when the wait for the follow-on navigation
\* times out the handler goes on: from page.goto to the wait, from the wait to
\* the polling loop (or, with a buffer already stored, past the loop to the
\* success path); after such a failure a buffer stored by a listener in the
\* passive phase is the result, and the request that took it answers 200
\* with that buffer.
C23_NavigationDegrades ==
    /\ [][/\ (pc = "goto" /\ pc' # pc) => pc' = "waitNav"
          /\ (pc = "waitNav" /\ pc' # pc) =>
                (pc' = IF pdfCaptured THEN "genName" ELSE "poll")
          /\ (navErrors # {} /\ Stage(pc) = 1 /\ Stage(pc') > 1 /\ NonEmpty(pdfBuffer))
                => (pc' = "genName" /\ outBytes' = pdfBuffer /\ origin' = "passive")]_vars
    /\ [](/\ "goto" \in navErrors => navResponse = "none"
          /\ (navErrors # {} /\ pc = "done" /\ origin = "passive")
                => (res.status = 200 /\ res.pdf = Base64(outBytes) /\ IsPdf(outBytes)))

\* page.goto rejected, the wait timed out, and the request answered 200 with
\* the buffer a listener stored
C23_Witness ==
    /\ pc = "done"
    /\ navErrors = {"goto", "waitNav"}
    /\ origin = "passive"
    /\ res.status = 200

\* the steps of fallbacks 2 and 3
GatedPcs == {"fb2Form", "fb2Fetch", "fb3NewPage", "fb3Goto", "fb3Buffer", "fb3Close"}

\* C24: the form extraction, the in-page resubmission and the secondary page
\* are reached only after page.url() returned a string other than url; when
\* it returned url itself the handler goes straight to the last resort, no
\* secondary page is ever opened, and the request ends in 'No PDF found'.
C24_UrlDifferenceGate ==
    /\ [](/\ pc \in GatedPcs => (currentUrl # NullBuf /\ currentUrl # url)
          /\ newPage # "none" => (currentUrl # NullBuf /\ currentUrl # url)
          /\ (currentUrl # NullBuf /\ currentUrl = url) =>
                /\ pc \in {"closeFinal", "closeCatch", "done"}
                /\ origin = "none"
                /\ pc = "done" => FailedNoPdf)
    /\ [][(currentUrl' # currentUrl /\ currentUrl' = url) => pc' = "closeFinal"]_vars

\* fallback 1 read the navigation response and found no PDF, the page was
\* still at url, and the request failed
C24_Witness ==
    /\ pc = "done"
    /\ currentUrl = url
    /\ navResponse = "pdf"
    /\ newPage = "none"
    /\ FailedNoPdf

\* C26: pdfCaptured is true only while pdfBuffer holds a buffer that is not
\* null, not empty and begins with '%PDF'; a flag that is set stays set, and a
\* buffer that is stored is never replaced by null.
C26_FlagImpliesBuffer ==
    /\ [](pdfCaptured =>
            (pdfBuffer # NullBuf /\ NonEmpty(pdfBuffer) /\ StartsWithMagic(pdfBuffer)))
    /\ [][/\ pdfCaptured => pdfCaptured'
          /\ pdfBuffer # NullBuf => pdfBuffer' # NullBuf]_vars

\* a listener stored the buffer while the handler was in its network-idle wait
C26_Witness ==
    /\ pc = "settle3"
    /\ pdfCaptured
    /\ StartsWithMagic(pdfBuffer)

\* C27: in a success response the pdf field is the base64 text of the very
\* buffer generatePdfFilename was called with, whatever the listeners stored
\* in pdfBuffer between the call and the response.
C27_BytesMatchFilename ==
    /\ pc \in SuccessPcs => (nameArg = outBytes /\ nameArg # NullBuf)
    /\ res.status = 200 =>
         /\ nameArg = outBytes
         /\ res.pdf = Base64(nameArg)
         /\ res.filename = filename

\* the passive path answered 200 with the buffer one channel had stored, after
\* the refetch of the response handler stored other bytes in pdfBuffer
C27_Witness ==
    /\ pc = "done"
    /\ res.status = 200
    /\ origin = "passive"
    /\ pdfBuffer # outBytes
    /\ res.pdf = Base64(outBytes)

\* the statuses a request is answered with (server.js:297, 308, 652, 908)
Statuses == {200, 400, 500}

\* C28: with every await of the handler settling (the launches, the page
\* operations, the timers, the parse), from wherever the handler stands it
\* comes to send a response, and the response is a 400, a 200 or a 500; the
\* handler never ends without one.
C28_EventualResponse ==
    /\ [](pc = "done" => (res # NoResponse /\ res.status \in Statuses))
    /\ (pc # "done") ~> (pc = "done" /\ res.status \in Statuses)

\* a 200 sent although the parse of the PDF ended in the parser's error event
C28_Witness ==
    /\ pc = "done"
    /\ res.status = 200
    /\ parserEvent = "dataError"
    /\ origin = "fb1"

\* ------------------------------------------------- generatePdfFilename alone
\* One call generatePdfFilename(pdfBuffer, url) (server.js:243-287) on a PDF
\* whose text runs are pdfData.

\* longest document drawn
MaxRuns == 3

Documents == UNION {[1..n -> Runs] : n \in 0..MaxRuns}

\* 'a:?', 'a:>>>>>>' and 'http://a.b'
MetaUrls ==
    { <<97, 58, 63>>,
      <<97, 58, 62, 62, 62, 62, 62, 62>>,
      <<104, 116, 116, 112, 58, 47, 47, 97, 46, 98>> }

\* ---- documents that hold one issue date
\* one character of String.prototype.toUpperCase
UpperOf(c) == IF c \in Range(Lower) THEN Upper[CHOOSE k \in 1..26 : Lower[k] = c] ELSE c

\* the letter cases a month name is written in: diciembre, DICIEMBRE,
\* Diciembre, dIcIeMbRe
LetterCases == {"lower", "upper", "capital", "mixed"}
InCase(w, cs) ==
    [k \in 1..Len(w) |->
        IF cs = "upper" \/ (cs = "capital" /\ k = 1) \/ (cs = "mixed" /\ k % 2 = 0)
          THEN UpperOf(w[k]) ELSE w[k]]

\* the day as the document prints it: 1 .. 31, not padded
LastDay == 31
DayText(d) == IF d < 10 THEN <<Digits[d + 1]>> ELSE TwoDigits(d)

DateYears == {<<"2", "0", "2", "5">>, <<"1", "9", "9", "9">>}

\* the two spellings of a dated line: 'FechaEmisión:15 de diciembre de 2025'
\* and its no-space equivalent 'FechaEmisión15dediciembrede2025'
DateLayouts == {"spaced", "dense"}
DateRun(layout, day, word, year) ==
    LET label == <<"F","e","c","h","a","E","m","i","s","i","%","C","3","%","B","3","n">>
        sp    == <<"%", "2", "0">>
        de    == <<"d", "e">>
    IN  IF layout = "spaced"
          THEN label \o <<"%", "3", "A">> \o day \o sp \o de \o sp \o word \o sp \o de \o sp \o year
          ELSE label \o day \o de \o word \o de \o year

\* every day, every month of the table in every letter case, in both spellings
DateParams ==
    [layout : DateLayouts, day : 1..LastDay, month : 1..12, case : LetterCases,
     year : DateYears]
DateDocOf(p) ==
    << DateRun(p.layout, DayText(p.day), InCase(MonthNames[p.month], p.case), p.year) >>
DateDocuments == {DateDocOf(p) : p \in DateParams}

\* month words that are no key of the table (server.js:214-218)
UnmappedWords ==
    { <<"x","y","z">>, <<"M","e","s">>, <<"m","a","y","o","1">>, <<"1","3">>,
      <<"d","e","_","m","e","s">>, <<"c","o","n","s","t","r","u","c","t","o","r">>,
      <<"_","_","p","r","o","t","o","_","_">> }
UnmappedParams == [layout : DateLayouts, day : {7, 15}, word : UnmappedWords, year : DateYears]
UnmappedDocOf(p) == << DateRun(p.layout, DayText(p.day), p.word, p.year) >>
UnmappedDocuments == {UnmappedDocOf(p) : p \in UnmappedParams}

\* ---- documents with two labelled dates
\* 'FechaEmisión', 'Fecha Emisión' and 'Fecha Vencimiento' as the T value of a
\* run writes them
IssueLabels == {"joined", "split"}
LabelText(kind) ==
    IF kind = "joined"
      THEN <<"F","e","c","h","a","E","m","i","s","i","%","C","3","%","B","3","n">>
    ELSE IF kind = "split"
      THEN <<"F","e","c","h","a","%","2","0","E","m","i","s","i","%","C","3","%","B","3","n">>
    ELSE <<"F","e","c","h","a","%","2","0","V","e","n","c","i","m","i","e","n","t","o">>

\* the line '<label> 15 de diciembre de 2025' of the issue date, the month in
\* lower or upper case, and the line
\* 'Fecha Vencimiento 20 de enero de 2026' of the due date
IssueRun(kind, case) ==
    LabelText(kind) \o <<"%", "2", "0">>
      \o <<"1","5","%","2","0","d","e","%","2","0">> \o InCase(MonthNames[12], case)
      \o <<"%","2","0","d","e","%","2","0","2","0","2","5">>
DueRun ==
    LabelText("due") \o <<"%", "2", "0">>
      \o <<"2","0","%","2","0","d","e","%","2","0","e","n","e","r","o",
           "%","2","0","d","e","%","2","0","2","0","2","6">>

\* the two lines in either order, the issue label in either spelling
LabelOrders == {"issueFirst", "dueFirst"}
LabelParams == [issue : IssueLabels, case : {"lower", "upper"}, order : LabelOrders]
LabelDocOf(p) ==
    IF p.order = "issueFirst" THEN <<IssueRun(p.issue, p.case), DueRun>>
                              ELSE <<DueRun, IssueRun(p.issue, p.case)>>
LabelDocuments == {LabelDocOf(p) : p \in LabelParams}

\* ---- documents that hold one run of single characters set apart by spaces
\* longest such run
MaxSpaced == 4
SpacedClasses == {"digit", "lower", "upper"}
SpacedChar(cls, k) ==
    IF cls = "digit" THEN Digits[k + 1] ELSE IF cls = "lower" THEN Lower[k] ELSE Upper[k]

\* the characters of the run, and the T value that writes them one space apart
SpacedToken(cls, n) == [k \in 1..n |-> SpacedChar(cls, k)]
RECURSIVE SpacedRun(_, _)
SpacedRun(cls, n) ==
    IF n = 1 THEN <<SpacedChar(cls, 1)>>
    ELSE SpacedRun(cls, n - 1) \o <<"%", "2", "0", SpacedChar(cls, n)>>

SpacedParams == [class : SpacedClasses, n : 2..MaxSpaced]
SpacedDocOf(p) == << SpacedRun(p.class, p.n) >>
SpacedDocuments == {SpacedDocOf(p) : p \in SpacedParams}

\* one call on a document of text runs with each URL, or on a dated document
InitMeta ==
    /\ InitBrowserVars
    /\ InitHandler
    /\ \/ url \in MetaUrls /\ pdfData \in Documents
       \/ url = <<97, 58, 63>>
            /\ pdfData \in DateDocuments \cup UnmappedDocuments \cup LabelDocuments
                             \cup SpacedDocuments
    /\ mpc = "call"
    /\ parserEvent = "none"
    /\ metadata = NoMetadata
    /\ InitPair

\* server.js:246, 104-105, 233: the parser is created and handed the buffer
MParseStart ==
    /\ mpc = "call"
    /\ mpc' = "parsing"
    /\ UNCHANGED <<pdfData, parserEvent, metadata, filename>>

\* server.js:105, 233: new PDFParser or parseBuffer throws inside the promise
\* executor, the promise rejects and generatePdfFilename's catch takes over
MParseThrows ==
    /\ mpc = "call"
    /\ mpc' = "settled"
    /\ parserEvent' = "threw"
    /\ metadata' = [rejected |-> TRUE, rut |-> NULL, fechaEmision |-> NULL]
    /\ UNCHANGED <<pdfData, filename>>

\* server.js:107-110
MDataError ==
    /\ mpc = "parsing"
    /\ mpc' = "settled"
    /\ parserEvent' = "dataError"
    /\ metadata' = NoMetadata
    /\ UNCHANGED <<pdfData, filename>>

\* server.js:112-230
MDataReady ==
    /\ mpc = "parsing"
    /\ mpc' = "settled"
    /\ parserEvent' = "dataReady"
    /\ metadata' = ExtractPdfMetadata(pdfData)
    /\ UNCHANGED <<pdfData, filename>>

\* server.js:246-287: the await settles and the name is put together
MNameDone ==
    /\ mpc = "settled"
    /\ mpc' = "named"
    /\ filename' = GeneratePdfFilename(metadata, IsoNow, url)
    /\ UNCHANGED <<pdfData, parserEvent, metadata>>

NextMeta ==
    \/ MParseStart /\ UNCHANGED <<browserVars, handlerRest, netVars, pairVars>>
    \/ MParseThrows /\ UNCHANGED <<browserVars, handlerRest, netVars, pairVars>>
    \/ MDataError /\ UNCHANGED <<browserVars, handlerRest, netVars, pairVars>>
    \/ MDataReady /\ UNCHANGED <<browserVars, handlerRest, netVars, pairVars>>
    \/ MNameDone /\ UNCHANGED <<browserVars, handlerRest, netVars, pairVars>>

SpecMeta == InitMeta /\ [][NextMeta]_vars

\* the label-prefixed RUT tokens of the document's no-space text, in document
\* order, and the place of the addressee label (0: none)
Tokens == AllRutMatches(TextNoSpaces(RawText(pdfData)))
SenorAt == IndexOf(ToLowerCase(TextNoSpaces(RawText(pdfData))), <<"s", "e", "ñ", "o", "r">>)

\* the text of the document was extracted
Extracted == parserEvent = "dataReady" /\ ~DecodeThrows(pdfData)

\* C9: with two label-prefixed RUT tokens of which only the second stands after
\* the addressee label the second is returned; with two or more tokens and no
\* addressee label the last one; with exactly one token that token.
C9_RutDisambiguation ==
    Extracted =>
      /\ (Len(Tokens) = 2 /\ SenorAt > 0 /\ Tokens[1].index < SenorAt
            /\ Tokens[2].index > SenorAt)
           => metadata.rut = StripRut(Tokens[2].g1)
      /\ (Len(Tokens) >= 2 /\ SenorAt = 0)
           => metadata.rut = StripRut(Tokens[Len(Tokens)].g1)
      /\ Len(Tokens) = 1 => metadata.rut = StripRut(Tokens[1].g1)

\* the name ends in -{timestamp}-{hash}.pdf after the given beginning
NameIs(begin, hash) ==
    filename = begin \o Timestamp(IsoNow) \o <<"-">> \o hash \o <<".", "p", "d", "f">>

\* C10: the name is {rut}-{issueDate}-{timestamp}-{urlHash}.pdf exactly when
\* both rut and the issue date resolved to non-null values, and
\* pdf-{timestamp}-{urlHash}.pdf in every other case, errors included; urlHash
\* holds alphanumeric characters only, ten at most.
C10_FilenameForm ==
    mpc = "named" =>
      LET hash == UrlHash(url)
          both == parserEvent = "dataReady" /\ metadata.rut # NULL /\ metadata.fechaEmision # NULL
      IN  /\ both => NameIs(metadata.rut \o <<"-">> \o metadata.fechaEmision \o <<"-">>, hash)
          /\ ~both => NameIs(<<"p", "d", "f", "-">>, hash)
          /\ Len(hash) <= 10
          /\ \A k \in 1..Len(hash) : hash[k] \in Range(Upper) \cup Range(Lower) \cup Range(Digits)
          /\ LET b64 == Base64(url)
                 cut == SubSeq(b64, 1, IF Len(b64) < 10 THEN Len(b64) ELSE 10)
             IN  hash = SelectSeq(cut, IsAlnum)

\* a specific name whose hash lost a character to the filter
C10_Witness ==
    /\ mpc = "named"
    /\ metadata.rut # NULL /\ metadata.fechaEmision # NULL
    /\ filename[1] \in Range(Digits)
    /\ Len(url) > 7 /\ Len(UrlHash(url)) < 10

\* ------------------------------------------------------------ issue dates

\* YYYY-MM-DD written out from the numbers of the date
IsoDate(year, month, day) == year \o <<"-">> \o TwoDigits(month) \o <<"-">> \o TwoDigits(day)

\* each dated document with the date it states
DateCases == {<<DateDocOf(p), IsoDate(p.year, p.month, p.day)>> : p \in DateParams}

\* '15 de diciembre de 2025' after the label, in both spellings
DecemberDocs ==
    {DateDocOf([layout |-> l, day |-> 15, month |-> 12, case |-> "lower",
                year |-> <<"2", "0", "2", "5">>]) : l \in DateLayouts}

\* C13: for every day 1..31, each of the 12 month names in any letter case and
\* every 4-digit year, the matched date yields YYYY-MM-DD with the day padded
\* to two digits and the month taken from the table; '15 de diciembre de 2025'
\* and its no-space equivalent yield 2025-12-15.
C13_IssueDateAssembly ==
    parserEvent = "dataReady" =>
      /\ pdfData \in DateDocuments => <<pdfData, metadata.fechaEmision>> \in DateCases
      /\ pdfData \in DecemberDocs =>
           metadata.fechaEmision = <<"2","0","2","5","-","1","2","-","1","5">>

\* a single-digit day and a month in mixed case, in the spaced spelling
C13_Witness ==
    /\ mpc = "named" /\ parserEvent = "dataReady"
    /\ pdfData = DateDocOf([layout |-> "spaced", day |-> 7, month |-> 9, case |-> "mixed",
                            year |-> <<"1", "9", "9", "9">>])
    /\ metadata.fechaEmision = <<"1","9","9","9","-","0","9","-","0","7">>

\* each document with an unmapped month word, with the date it should give
UnmappedCases ==
    {<<UnmappedDocOf(p), p.year \o <<"-", "0", "1", "-">> \o TwoDigits(p.day)>> :
        p \in UnmappedParams}

\* C14: a month word the pattern matches that is no key of the table gives the
\* month 01, whatever the word, and the extraction settles without an error.
C14_UnmappedMonth ==
    (mpc \in {"settled", "named"} /\ parserEvent = "dataReady"
       /\ pdfData \in UnmappedDocuments)
      => (~metadata.rejected /\ <<pdfData, metadata.fechaEmision>> \in UnmappedCases)

\* ------------------------------------------------------ issue-date label

\* C25: in a text with an issue date and a due date, each after its label, the
\* issue date returned is the one after 'Fecha Emisión', whichever line comes
\* first and however the label is spelt; the date after 'Fecha Vencimiento' is
\* not returned.
C25_IssueLabelBinding ==
    (mpc \in {"settled", "named"} /\ parserEvent = "dataReady"
       /\ pdfData \in LabelDocuments)
      => metadata.fechaEmision = <<"2","0","2","5","-","1","2","-","1","5">>

\* --------------------------------------------------------- collapsed view

\* each spaced document with the token its characters make up
SpacedCases == {<<SpacedDocOf(p), SpacedToken(p.class, p.n)>> : p \in SpacedParams}

\* C29: a run of 2 .. MaxSpaced single digits one space apart (likewise of
\* lower-case letters, of upper-case letters) stands in the collapsed view as
\* one token without a space inside.
C29_CollapsedView ==
    (parserEvent = "dataReady" /\ pdfData \in SpacedDocuments)
      => <<pdfData, NormalizedText(RawText(pdfData))>> \in SpacedCases

\* -------------------------------------------------------- RUT normalisation

\* C15: the RUT returned is the chosen token without its '.' and '-': it holds
\* digits only, the digits of the token in their order, normalising it again
\* changes nothing, and 4.835.956-6 gives 48359566.
C15_RutNormalization ==
    /\ metadata.rut # NULL =>
         /\ \A k \in 1..Len(metadata.rut) : metadata.rut[k] \in Range(Digits)
         /\ Len(Tokens) >= 1
         /\ metadata.rut = SelectSeq(Tokens[1].g1, IsDigit)
         /\ StripRut(metadata.rut) = metadata.rut
         /\ StripRut(StripRut(Tokens[1].g1)) = StripRut(Tokens[1].g1)
    /\ (parserEvent = "dataReady" /\ pdfData = <<RunRutSpaced>>) =>
         metadata.rut = <<"4", "8", "3", "5", "9", "5", "6", "6">>

\* the token 4.835.956-6, read from a text with a space after every character
C15_Witness ==
    /\ mpc = "named" /\ pdfData = <<RunRutSpaced>>
    /\ Tokens[1].g1 = <<"4", ".", "8", "3", "5", ".", "9", "5", "6", "-", "6">>
    /\ metadata.rut = <<"4", "8", "3", "5", "9", "5", "6", "6">>

\* ------------------------------------------------ two requests, one browser
\* Two /download-pdf requests are in flight on the shared browser. Every call
\* of the handler creates its own page, pdfBuffer, pdfCaptured and maps
\* (server.js:291, 320, 326-329, 342) and registers its listeners on its own
\* page and CDP session (344-345, 373, 446, 462); rq[r] holds the bindings of
\* request r. The steps of one request are those of Spec; here each phase is
\* one step, with what it reads and writes.

\* a PDF body tells by its tag on which page it was served: 20 + p to the
\* listeners of page p, 40 + p to the fallback reads made on page p
ServedOn(p) == PdfBody(20 + p)
FetchedOn(p) == PdfBody(40 + p)

\* mutant: a listener hears the responses of every page of the browser
Hears_AnyPage(l, p) == TRUE
\* page.on('response') and cdpClient.on(...) deliver the events of the page
\* they were registered on (server.js:345, 373, 462)
Hears(l, p) == l.page = p

\* server.js:293-317: the url is valid, getBrowser is called
PStart(r) ==
    /\ rq[r].pc = "idle"
    /\ ReqGetBrowser(r)
    /\ rq' = [rq EXCEPT ![r].pc = "getBrowser"]
    /\ UNCHANGED <<pages, listeners, pending>>

\* puppeteer.launch settles inside getBrowser (server.js:54-72)
PGetBrowserStep(r) ==
    /\ rq[r].pc = "getBrowser"
    /\ \/ GbLaunchOk(r)
       \/ GbLaunchFail(r)
       \/ GbRetryOk(r)
       \/ GbRetryFail(r)
    /\ UNCHANGED <<gbCalls, pairVars>>

\* getBrowser threw: the catch block answers 500 (server.js:897-912)
PBrowserThrew(r) ==
    /\ rq[r].pc = "getBrowser"
    /\ gbpc[r] = "threw"
    /\ rq' = [rq EXCEPT ![r].pc = "done", ![r].status = 500]
    /\ UNCHANGED <<browserVars, pages, listeners, pending>>

\* browser.newPage() settles (server.js:320); on a page the listeners of the
\* request are registered (344-572) and the passive phase begins (577)
PNewPage(r) ==
    /\ rq[r].pc = "getBrowser"
    /\ gbpc[r] = "returned"
    /\ \E ok \in BOOLEAN :
         IF ok
           THEN /\ pages' = Append(pages, [owner |-> r, open |-> TRUE, events |-> 0])
                /\ listeners' = listeners \cup {[page |-> Len(pages) + 1, owner |-> r]}
                /\ rq' = [rq EXCEPT ![r].pc = "passive", ![r].page = Len(pages) + 1]
           ELSE /\ rq' = [rq EXCEPT ![r].pc = "done", ![r].status = 500]
                /\ UNCHANGED <<pages, listeners>>
    /\ UNCHANGED <<browserVars, pending>>

\* A response arrives on page p. Each listener that hears it runs up to its
\* first await: it returns if its request has captured (server.js:346, 374,
\* 463), else it records the response (355) and starts to read the body.
PResponse(p) ==
    /\ p \in 1..Len(pages)
    /\ pages[p].open
    /\ pages[p].events < MaxResponses
    /\ pages' = [pages EXCEPT ![p].events = @ + 1]
    /\ \E b \in {ServedOn(p), HtmlBody} :
         LET heard == {l \in listeners : Hears(l, p) /\ ~rq[l.owner].pdfCaptured}
         IN  /\ rq' = [r \in Callers |->
                         IF \E l \in heard : l.owner = r
                           THEN [rq[r] EXCEPT !.cdpResponseMap = @ \cup {p}]
                           ELSE rq[r]]
             /\ pending' = pending \cup {[owner |-> l.owner, body |-> b] : l \in heard}
    /\ UNCHANGED <<browserVars, listeners>>

\* the read of a listener settles and the buffer is stored if it is a PDF
\* (server.js:403-408, 430-433, 531-537, 556-562)
PSettle(x) ==
    /\ x \in pending
    /\ pending' = pending \ {x}
    /\ rq' = IF AcceptHl(x.body)
               THEN [rq EXCEPT ![x.owner].pdfBuffer = x.body, ![x.owner].pdfCaptured = TRUE]
               ELSE rq
    /\ UNCHANGED <<browserVars, pages, listeners>>

\* the passive phase of request r is over (server.js:577-658): a stored
\* buffer is the result, else the fallbacks follow
PPassiveDone(r) ==
    /\ rq[r].pc = "passive"
    /\ rq' = IF NonEmpty(rq[r].pdfBuffer)
               THEN [rq EXCEPT ![r].pc = "closing", ![r].pdfCaptured = TRUE,
                               ![r].out = rq[r].pdfBuffer]
               ELSE [rq EXCEPT ![r].pc = "fallback"]
    /\ UNCHANGED <<browserVars, pages, listeners, pending>>

\* the fallbacks of request r are over (server.js:660-888): they read from the
\* request's own page into a local buffer
PFallbackDone(r) ==
    /\ rq[r].pc = "fallback"
    /\ \E b \in {FetchedOn(rq[r].page), HtmlBody, NullBuf} :
         rq' = [rq EXCEPT ![r].pc = "closing",
                          ![r].out = IF AcceptFb1(b) THEN b ELSE NullBuf]
    /\ UNCHANGED <<browserVars, pages, listeners, pending>>

\* page.close() and the response (server.js:649-657, 892-911)
PRespond(r) ==
    /\ rq[r].pc = "closing"
    /\ pages' = [pages EXCEPT ![rq[r].page].open = FALSE]
    /\ rq' = [rq EXCEPT ![r].pc = "done",
                        ![r].status = IF rq[r].out # NullBuf THEN 200 ELSE 500]
    /\ UNCHANGED <<browserVars, listeners, pending>>

NextPair ==
    \/ \E r \in Callers : PStart(r) /\ UNCHANGED <<handlerVars, netVars, metaVars>>
    \/ \E r \in Callers : PGetBrowserStep(r) /\ UNCHANGED <<handlerVars, netVars, metaVars>>
    \/ \E r \in Callers : PBrowserThrew(r) /\ UNCHANGED <<handlerVars, netVars, metaVars>>
    \/ \E r \in Callers : PNewPage(r) /\ UNCHANGED <<handlerVars, netVars, metaVars>>
    \/ \E p \in 1..Len(pages) : PResponse(p) /\ UNCHANGED <<handlerVars, netVars, metaVars>>
    \/ \E x \in pending : PSettle(x) /\ UNCHANGED <<handlerVars, netVars, metaVars>>
    \/ \E r \in Callers : PPassiveDone(r) /\ UNCHANGED <<handlerVars, netVars, metaVars>>
    \/ \E r \in Callers : PFallbackDone(r) /\ UNCHANGED <<handlerVars, netVars, metaVars>>
    \/ \E r \in Callers : PRespond(r) /\ UNCHANGED <<handlerVars, netVars, metaVars>>

SpecPair == InitBrowser /\ [][NextPair]_vars

\* C16: each request has its own pdfBuffer, pdfCaptured and response map: a
\* request's buffer, flag and map hold only what was served on its own page,
\* the pages of two requests differ, and the PDF a request returns was served
\* or fetched on its own page, never on the other request's.
C16_RequestIsolation ==
    /\ \A r \in Callers :
         /\ rq[r].pdfBuffer # NullBuf => rq[r].pdfBuffer = ServedOn(rq[r].page)
         /\ rq[r].pdfCaptured => rq[r].pdfBuffer # NullBuf
         /\ rq[r].cdpResponseMap \subseteq {rq[r].page}
         /\ rq[r].out # NullBuf => rq[r].out \in {ServedOn(rq[r].page), FetchedOn(rq[r].page)}
         /\ rq[r].status = 200 => rq[r].out # NullBuf
         /\ rq[r].page # 0 => pages[rq[r].page].owner = r
    /\ \A r1, r2 \in Callers :
         (r1 # r2 /\ rq[r1].page # 0) => rq[r1].page # rq[r2].page

\* request 1 has captured its PDF while request 2, on the same browser, is
\* still in its passive phase with nothing stored
C16_Witness ==
    /\ rq[1].pc = "passive" /\ rq[2].pc = "passive"
    /\ gbBrowser[1] = gbBrowser[2]
    /\ rq[1].pdfCaptured /\ rq[1].pdfBuffer = ServedOn(rq[1].page)
    /\ ~rq[2].pdfCaptured /\ rq[2].pdfBuffer = NullBuf

\* ----------------------------------------- extraction failures in a request

\* neither date pattern matches the document's text
NoDateMatch ==
    /\ ~SpacedDate(NormalizedText(RawText(pdfData))).ok
    /\ ~DenseDate(TextNoSpaces(RawText(pdfData))).ok

C12_InputValidation ==
    (UrlMissing(url) \/ ~IsValidUrl(url)) =>
        /\ pc \in {"start", "done"}
        /\ pc = "done" => (res.status = 400 /\ resCount = 1)
        /\ gbpc[Main] = "idle" /\ gbBrowser[Main] = NoBrowser
        /\ launched = 0 /\ browserInstance = NoBrowser
        /\ page = "none" /\ newPage = "none"

\* a url that is present but no URL, answered with 400
C12_Witness ==
    /\ url = <<58, 97>>
    /\ pc = "done" /\ res.status = 400 /\ res.error = "Invalid URL format"

====
